---- MODULE Spec2Model ----
(***************************************************************************)
(* Chapter discovery and text extraction of the Ebook-Chapter-Extractor    *)
(* (src/app.js): PDFParser.parsePDF and its four discovery stages,         *)
(* parseEpubStructure, extractTextFromHtml and viewChapter.                *)
(*                                                                         *)
(* Strings are TLA+ strings; the regular expressions of the source are     *)
(* operators over their characters.                                        *)
(***************************************************************************)
EXTENDS Integers, Sequences, FiniteSets, TLC

VARIABLES
    pc,         \* position of the running parsePDF call
    pdf,        \* the document handle parsePDF works on (pdfjsLib's answers)
    chapters,   \* parsePDF's local `chapters`
    invoked,    \* the discovery stages called so far, in call order
    stageOut,   \* what each called stage returned
    result,     \* what parsePDF returned
    epc,          \* position of the running parseEpubStructure call
    zip,          \* the EPUB archive parseEpubStructure works on
    spineIndex,   \* the itemref of the spine the loop is at
    bookChapters, \* parseEpubStructure's local `chapters`
    parsed,       \* what parseEpubStructure returned
    vpc,                   \* position of the running viewChapter call
    request,               \* the chapter viewChapter is asked for
    button,                \* the chapter's View & Download button
    currentChapterContent, \* the global of that name
    shown,                 \* the section on display, its title and content
    alerted,               \* the message of the last alert
    extracted,             \* what extractTextFromHtml returned for the chapter
    xpc,           \* position of the running downloadFullBook call
    currentBook,   \* the global of that name, and what the store holds for it
    arrayBuffer,   \* the book whose file downloadFullBook asked for and reads
    chapterIndex,  \* the chapter the loop of downloadFullBook is at
    fullBookText,  \* downloadFullBook's local of that name
    saved,         \* the file offered for download
    exportAlert,   \* the message of downloadFullBook's alert
    downloadBtn,   \* the Download Full Book button
    upc,          \* position of the running handleUpload call
    upload,       \* the file of the file input
    books,        \* the object store of the books
    epubFiles,    \* the object store of the files, by the id of their book
    booksList,    \* the books the list on the page shows
    uploadAlert,  \* the message of handleUpload's alert
    uploadBtn,    \* the Upload button
    opc,            \* position of the running computation of the page offset
    tocDoc,         \* the document whose TOC page is read
    mainEntries,    \* extractChaptersFromTOC's local `mainChapters`
    sampleIndex,    \* the entry the loop over the first main chapters is at
    offsetSamples,  \* the local of that name
    pageOffset,     \* the local of that name
    offsets,        \* the page offset of each computation that has ended
    tocChapters,    \* the chapters made with the page offset
    at,        \* the position of each of the calls that run at the same time
    given,     \* the document each of them was called with
    locals,    \* the locals of the calls: chapters, and the loop over the spine
    resolved,  \* what each of them returned
    tx,        \* the readwrite transaction of EpubDB that is open
    viewAt,       \* position of each viewChapter call that runs
    asked,        \* the book and chapter each of them was called for
    viewLocals,   \* their locals
    viewButtons   \* the button each of them was clicked on

pdfVars == <<pc, pdf, chapters, invoked, stageOut, result>>

epubVars == <<epc, zip, spineIndex, bookChapters, parsed>>

viewVars == <<vpc, request, button, currentChapterContent, shown, alerted, extracted>>

exportVars ==
    <<xpc, currentBook, arrayBuffer, chapterIndex, fullBookText, saved, exportAlert,
      downloadBtn>>

uploadVars == <<upc, upload, books, epubFiles, booksList, uploadAlert, uploadBtn>>

offsetVars ==
    <<opc, tocDoc, mainEntries, sampleIndex, offsetSamples, pageOffset, offsets, tocChapters>>

callVars == <<at, given, locals, resolved>>

storeVars == <<tx>>

viewsVars == <<viewAt, asked, viewLocals, viewButtons>>

vars ==
    <<pdfVars, epubVars, viewVars, exportVars, uploadVars, offsetVars, callVars, storeVars,
      viewsVars>>

\* what the code of one part of the program leaves alone
notPdf == <<epubVars, viewVars, exportVars, uploadVars, offsetVars, callVars,
    storeVars, viewsVars>>

notEpub == <<pdfVars, viewVars, exportVars, uploadVars, offsetVars, callVars,
    storeVars, viewsVars>>

notView == <<pdfVars, epubVars, exportVars, uploadVars, offsetVars, callVars,
    storeVars, viewsVars>>

notExport == <<pdfVars, epubVars, viewVars, uploadVars, offsetVars, callVars,
    storeVars, viewsVars>>

notUpload == <<pdfVars, epubVars, viewVars, exportVars, offsetVars, callVars,
    storeVars, viewsVars>>

notOffset == <<pdfVars, epubVars, viewVars, exportVars, uploadVars, callVars,
    storeVars, viewsVars>>

notCalls == <<pdfVars, epubVars, viewVars, exportVars, uploadVars, offsetVars,
    storeVars, viewsVars>>

notViews ==
    <<pdfVars, epubVars, exportVars, uploadVars, offsetVars, callVars, storeVars,
      vpc, request, button, extracted>>

notStore ==
    <<pdfVars, epubVars, viewVars, exportVars, offsetVars, callVars,
      upc, upload, booksList, uploadAlert, uploadBtn, viewsVars>>

-----------------------------------------------------------------------------
(* Bounds of the model.                                                    *)

MaxOutline == 2        \* outline entries of a generated outline
MaxOutlinePages == 2   \* pages of a document with a generated outline
MaxExamplePages == 5   \* pages of a document carrying the example outline
MaxPages == 3          \* pages of a document read for a TOC or for headings
MaxTocEntries == 3     \* lines of a generated table of contents
MaxPrinted == 3        \* largest page number printed in a table of contents
MaxLinks == 2          \* annotations of a generated table of links
MaxManifest == 2       \* items of a generated manifest
MaxSpine == 2          \* itemrefs of a generated spine
MaxNodes == 3          \* child nodes of the body of a generated chapter
MaxRangePages == 2     \* pages of a document whose page range is read
MaxChapters == 2       \* chapters of a book that is exported
MaxRuns == 2           \* computations of the page offset of one document
MaxCalls == 2          \* calls of chapter discovery that run at the same time
MaxIds == 3            \* ids of books that are added and deleted
MaxViews == 2          \* calls of viewChapter that run at the same time

-----------------------------------------------------------------------------
(* Strings and the character classes of JavaScript regular expressions.    *)

\* the character of s at position i; "" outside s
Char(s, i) == IF i >= 1 /\ i <= Len(s) THEN SubSeq(s, i, i) ELSE ""

Digits == {"0", "1", "2", "3", "4", "5", "6", "7", "8", "9"}

LowerLetters == {"a", "b", "c", "d", "e", "f", "g", "h", "i", "j", "k", "l", "m",
                 "n", "o", "p", "q", "r", "s", "t", "u", "v", "w", "x", "y", "z"}

UpperLetters == {"A", "B", "C", "D", "E", "F", "G", "H", "I", "J", "K", "L", "M",
                 "N", "O", "P", "Q", "R", "S", "T", "U", "V", "W", "X", "Y", "Z"}

\* \s
IsSpace(c) == c \in {" ", "\t", "\n", "\r", "\f"}

\* \d
IsDigit(c) == c \in Digits

\* \w
IsWordChar(c) == c \in Digits \cup LowerLetters \cup UpperLetters \cup {"_"}

LowerOf ==
    [c \in UpperLetters |->
        CASE c = "A" -> "a" [] c = "B" -> "b" [] c = "C" -> "c" [] c = "D" -> "d"
          [] c = "E" -> "e" [] c = "F" -> "f" [] c = "G" -> "g" [] c = "H" -> "h"
          [] c = "I" -> "i" [] c = "J" -> "j" [] c = "K" -> "k" [] c = "L" -> "l"
          [] c = "M" -> "m" [] c = "N" -> "n" [] c = "O" -> "o" [] c = "P" -> "p"
          [] c = "Q" -> "q" [] c = "R" -> "r" [] c = "S" -> "s" [] c = "T" -> "t"
          [] c = "U" -> "u" [] c = "V" -> "v" [] c = "W" -> "w" [] c = "X" -> "x"
          [] c = "Y" -> "y" [] c = "Z" -> "z"]

LowerChar(c) == IF c \in UpperLetters THEN LowerOf[c] ELSE c

UpperChar(c) ==
    IF c \in LowerLetters THEN CHOOSE u \in UpperLetters : LowerOf[u] = c ELSE c

\* the string made of f(s, i) for each position i of s, in order (built by
\* halves, so that a long string is not a deep recursion)
MapChars(s, f(_, _)) ==
    LET g[r \in (1..Len(s)) \X (1..Len(s))] ==
            IF r[1] = r[2] THEN f(s, r[1])
            ELSE g[<<r[1], (r[1] + r[2]) \div 2>>] \o g[<<(r[1] + r[2]) \div 2 + 1, r[2]>>]
    IN IF Len(s) = 0 THEN "" ELSE g[<<1, Len(s)>>]

\* String.prototype.toLowerCase
ToLowerCase(s) == MapChars(s, LAMBDA t, i : LowerChar(Char(t, i)))

\* s has p at position i
HasAt(s, p, i) == i >= 1 /\ i + Len(p) - 1 <= Len(s) /\ SubSeq(s, i, i + Len(p) - 1) = p

\* String.prototype.includes
Includes(s, p) == \E i \in 1..(Len(s) + 1) : HasAt(s, p, i)

\* the first position from `from` on at which p occurs in s, 0 without one
FindFrom(s, p, from) ==
    IF \E i \in from..Len(s) : HasAt(s, p, i)
    THEN CHOOSE i \in from..Len(s) :
            HasAt(s, p, i) /\ \A j \in from..(i - 1) : ~HasAt(s, p, j)
    ELSE 0

\* the length of the longest run of characters in class `cls` starting at i
RunOf(s, i, cls(_)) ==
    LET f[k \in 0..Len(s)] ==
            IF i + k <= Len(s) /\ cls(Char(s, i + k))
            THEN (IF k = Len(s) THEN k + 1 ELSE f[k + 1]) ELSE k
    IN IF i > Len(s) \/ i < 1 THEN 0 ELSE f[0]

\* the number of whitespace characters that end s
TrailingSpaces(s) ==
    LET f[k \in 0..Len(s)] ==
            IF k < Len(s) /\ IsSpace(Char(s, Len(s) - k)) THEN f[k + 1] ELSE k
    IN f[0]

\* String.prototype.trim
Trim(s) ==
    LET a == RunOf(s, 1, IsSpace)
    IN IF a = Len(s) THEN "" ELSE SubSeq(s, a + 1, Len(s) - TrailingSpaces(s))

\* Array.prototype.join over strings
Join(strs, sep) ==
    LET f[i \in 0..Len(strs)] ==
            IF i = 0 THEN ""
            ELSE IF i = 1 THEN strs[1] ELSE f[i - 1] \o sep \o strs[i]
    IN f[Len(strs)]

DigitValue(c) ==
    CASE c = "0" -> 0 [] c = "1" -> 1 [] c = "2" -> 2 [] c = "3" -> 3 [] c = "4" -> 4
      [] c = "5" -> 5 [] c = "6" -> 6 [] c = "7" -> 7 [] c = "8" -> 8 [] c = "9" -> 9

DigitChar(d) == Char("0123456789", d + 1)

\* parseInt of a run of decimal digits
ParseInt(s) ==
    LET f[i \in 0..Len(s)] ==
            IF i = 0 THEN 0 ELSE 10 * f[i - 1] + DigitValue(Char(s, i))
    IN f[Len(s)]

\* the decimal numeral of a natural number, as a page number is printed
NumStr(n) ==
    LET f[k \in 0..n] ==
            IF k < 10 THEN DigitChar(k) ELSE f[k \div 10] \o DigitChar(k % 10)
    IN f[n]

\* s with every character outside `keep` removed: replace(/[^...]/g, '')
KeepOnly(s, keep(_)) ==
    MapChars(s, LAMBDA t, i : IF keep(Char(t, i)) THEN Char(t, i) ELSE "")

DigitRun(s, i) == RunOf(s, i, IsDigit)

SpaceRun(s, i) == RunOf(s, i, IsSpace)

-----------------------------------------------------------------------------
(* What a call of a stage gives: null, a chapter list, or an exception     *)
(* (the promise rejects).                                                  *)

Null == [threw |-> FALSE, isNull |-> TRUE, list |-> <<>>]

Some(l) == [threw |-> FALSE, isNull |-> FALSE, list |-> l]

Thrown == [threw |-> TRUE, isNull |-> TRUE, list |-> <<>>]

\* a try block whose catch clause is missing: the exception leaves the stage
Uncaught(body, onError) == body

\* try { return body } catch (error) { return onError }
Catch(body, onError) == IF body.threw THEN onError ELSE body

\* the test `!chapters` alone, without the length
NullOnly(c) == c.isNull

\* the test `!chapters || chapters.length === 0` of parsePDF
NoChapters(c) == c.isNull \/ Len(c.list) = 0

-----------------------------------------------------------------------------
(* PDFParser.extractChaptersFromOutline                                    *)

\* /^(Chapter|CHAPTER)\s+\d+/i
MatchesChapterNumber(t) ==
    LET l == ToLowerCase(t)
        n == SpaceRun(l, 8)
    IN HasAt(l, "chapter", 1) /\ n >= 1 /\ DigitRun(l, 8 + n) >= 1

\* /^\d+\.\d+/
MatchesNumericSection(t) ==
    LET d == DigitRun(t, 1)
    IN d >= 1 /\ Char(t, d + 1) = "." /\ DigitRun(t, d + 2) >= 1

\* /^\d+\.?\s/
MatchesNumberedTitle(t) ==
    LET d == DigitRun(t, 1)
    IN d >= 1 /\ (IsSpace(Char(t, d + 1))
                  \/ (Char(t, d + 1) = "." /\ IsSpace(Char(t, d + 2))))

SpecialSectionNames ==
    {"introduction", "conclusion", "preface", "epilogue", "appendix",
     "bibliography", "references", "index", "foreword", "acknowledgments"}

\* /^(Introduction|Conclusion|...|Acknowledgments)$/i
IsSpecialSection(t) == ToLowerCase(t) \in SpecialSectionNames

\* An outline is the depth-first (pre-order) list of its entries: `level` is
\* the nesting depth flattenOutline passes down, `dest` what resolving the
\* entry gives: "none" (no dest, or getDestination gives null), "throws"
\* (getDestination or getPageIndex rejects) or "page", with the 0-based
\* pageIndex that getPageIndex returns.
Resolves(node) == node.dest = "page"

\* the parentTitle flattenOutline passes down: the enclosing entry's title
ParentTitle(nodes, i) ==
    IF nodes[i].level = 0 THEN ""
    ELSE LET up == {j \in 1..(i - 1) : nodes[j].level = nodes[i].level - 1}
         IN IF up = {} THEN ""
            ELSE nodes[CHOOSE j \in up : \A k \in up : k <= j].title

\* flattenOutline: the resolved entries, in depth-first order
FlattenOutline(nodes) ==
    LET f[i \in 0..Len(nodes)] ==
            IF i = 0 THEN <<>>
            ELSE IF Resolves(nodes[i])
                 THEN Append(f[i - 1],
                             [title |-> nodes[i].title,
                              pageNumber |-> nodes[i].pageIndex + 1,
                              level |-> nodes[i].level,
                              parentTitle |-> ParentTitle(nodes, i)])
                 ELSE f[i - 1]
    IN f[Len(nodes)]

\* allOutlineItems.sort((a, b) => a.pageNumber - b.pageNumber): stable
SortByPageNumber(items) ==
    LET ins(sorted, x) ==
            LET k == Cardinality({j \in 1..Len(sorted) :
                                     sorted[j].pageNumber <= x.pageNumber})
            IN SubSeq(sorted, 1, k) \o <<x>> \o SubSeq(sorted, k + 1, Len(sorted))
        f[i \in 0..Len(items)] ==
            IF i = 0 THEN <<>> ELSE ins(f[i - 1], items[i])
    IN f[Len(items)]

HasNumericChapters(items) ==
    \E i \in 1..Len(items) : MatchesChapterNumber(items[i].title)

HasNumericSections(items) ==
    \E i \in 1..Len(items) : MatchesNumericSection(items[i].title)

\* isMainChapter alone, without the canonical section names
IsMainChapterOnly(item, items) ==
    IF HasNumericChapters(items)
    THEN MatchesChapterNumber(item.title)
    ELSE IF HasNumericSections(items)
         THEN \/ item.level = 0
              \/ (MatchesNumberedTitle(item.title)
                  /\ ~MatchesNumericSection(item.title))
         ELSE item.level = 0

\* isMainChapter || isSpecialSection
IsMainChapter(item, items) ==
    \/ IF HasNumericChapters(items)
       THEN MatchesChapterNumber(item.title)
       ELSE IF HasNumericSections(items)
            THEN \/ item.level = 0
                 \/ (MatchesNumberedTitle(item.title)
                     /\ ~MatchesNumericSection(item.title))
            ELSE item.level = 0
    \/ IsSpecialSection(item.title)

\* the page before the next item of `items` after i that satisfies keep, or
\* the document's last page
EndPageAfter(items, i, keep(_), numPages) ==
    LET later == {j \in (i + 1)..Len(items) : keep(items[j])}
    IN IF later = {} THEN numPages
       ELSE items[CHOOSE j \in later : \A k \in later : j <= k].pageNumber - 1

\* main chapters without the search for the next one: each ends on the
\* document's last page
MainChaptersToLastPage(items, numPages) ==
    LET f[i \in 0..Len(items)] ==
            IF i = 0 THEN <<>>
            ELSE IF IsMainChapterOnly(items[i], items) \/ IsSpecialSection(items[i].title)
                 THEN Append(f[i - 1],
                             [title |-> items[i].title,
                              startPage |-> items[i].pageNumber,
                              endPage |-> numPages,
                              type |-> "pdf-chapter"])
                 ELSE f[i - 1]
    IN f[Len(items)]

MainChaptersOf(items, numPages) ==
    LET main(it) == IsMainChapter(it, items)
        f[i \in 0..Len(items)] ==
            IF i = 0 THEN <<>>
            ELSE IF main(items[i])
                 THEN Append(f[i - 1],
                             [title |-> items[i].title,
                              startPage |-> items[i].pageNumber,
                              endPage |-> EndPageAfter(items, i, main, numPages),
                              type |-> "pdf-chapter"])
                 ELSE f[i - 1]
    IN f[Len(items)]

Level0ChaptersOf(items, numPages) ==
    LET top(it) == it.level = 0
        f[i \in 0..Len(items)] ==
            IF i = 0 THEN <<>>
            ELSE IF top(items[i])
                 THEN Append(f[i - 1],
                             [title |-> items[i].title,
                              startPage |-> items[i].pageNumber,
                              endPage |-> EndPageAfter(items, i, top, numPages),
                              type |-> "pdf-chapter"])
                 ELSE f[i - 1]
    IN f[Len(items)]

\* a fallback that takes every item, whatever its level
ChaptersOfAllItems(items, mainChapters, numPages) ==
    IF Len(mainChapters) > 0 THEN Some(mainChapters)
    ELSE Some([i \in 1..Len(items) |->
                 [title |-> items[i].title, startPage |-> items[i].pageNumber,
                  endPage |-> numPages, type |-> "pdf-chapter"]])

\* the chapters of the sorted outline items: the main chapters, or every
\* level-0 item when there is no main chapter
ChaptersOfItems(items, mainChapters, numPages) ==
    IF Len(mainChapters) > 0 THEN Some(mainChapters)
    ELSE Some(Level0ChaptersOf(items, numPages))

ClassifyItems(items, numPages) ==
    ChaptersOfItems(items, MainChaptersOf(items, numPages), numPages)

\* the body of extractChaptersFromOutline's try block
OutlineBody(doc) ==
    IF doc.outline.status = "throws" THEN Thrown
    ELSE IF doc.outline.status = "null" \/ Len(doc.outline.nodes) = 0 THEN Null
    ELSE ClassifyItems(SortByPageNumber(FlattenOutline(doc.outline.nodes)), doc.numPages)

ExtractChaptersFromOutline(doc) == Catch(OutlineBody(doc), Null)

-----------------------------------------------------------------------------
(* Pages.  A page is what getPage / getTextContent / getAnnotations give:  *)
(* read = "throws" when reading it rejects, items = the text fragments in  *)
(* order (str, and y = transform[5]), annotations = the page's annotations *)
(* ("throws" when getAnnotations rejects).                                 *)

TocScanPages == 20     \* pages searched for a table of contents
LineTolerance == 5     \* a change of y above this starts a new line
MinMainChapters == 3   \* fewer main entries: every entry is a chapter
OffsetSamples == 3     \* entries sampled for the page offset
SearchBefore == 5      \* pages searched before the printed page
SearchAfter == 50      \* pages searched after the printed page
HeadItems == 10        \* leading fragments that count as a page's heading

Min(a, b) == IF a <= b THEN a ELSE b

Max(a, b) == IF a >= b THEN a ELSE b

Abs(a) == IF a >= 0 THEN a ELSE 0 - a

Strs(items) == [i \in 1..Len(items) |-> items[i].str]

FirstN(q, n) == SubSeq(q, 1, Min(n, Len(q)))

-----------------------------------------------------------------------------
(* PDFParser.extractChaptersFromTOCLinks                                   *)

\* the page a link annotation leads to: getDestination for a named
\* destination, then getPageIndex; 0 when pageIndex stays undefined or the
\* lookup throws (the link is skipped either way)
LinkPageNum(link) ==
    IF link.resolve = "page" THEN link.pageIndex + 1 ELSE 0

\* linkDestinations: one entry per link that resolves, titled by the text
\* near its rectangle (getTextNearRect) or "Section <k>"
LinkDestinations(links) ==
    LET f[i \in 0..Len(links)] ==
            IF i = 0 THEN <<>>
            ELSE IF LinkPageNum(links[i]) = 0 THEN f[i - 1]
                 ELSE Append(f[i - 1],
                             [title |-> IF Len(links[i].text) < 2
                                        THEN "Section " \o NumStr(Len(f[i - 1]) + 1)
                                        ELSE links[i].text,
                              pageNum |-> LinkPageNum(links[i])])
    IN f[Len(links)]

\* linkDestinations.sort((a, b) => a.pageNum - b.pageNum): stable
SortByPageNum(dests) ==
    LET ins(sorted, x) ==
            LET k == Cardinality({j \in 1..Len(sorted) : sorted[j].pageNum <= x.pageNum})
            IN SubSeq(sorted, 1, k) \o <<x>> \o SubSeq(sorted, k + 1, Len(sorted))
        f[i \in 0..Len(dests)] ==
            IF i = 0 THEN <<>> ELSE ins(f[i - 1], dests[i])
    IN f[Len(dests)]

\* allChapters: the first destination of every page (seenPageNums)
DistinctPages(dests) ==
    LET f[i \in 0..Len(dests)] ==
            IF i = 0 THEN <<>>
            ELSE IF \E j \in 1..(i - 1) : dests[j].pageNum = dests[i].pageNum
                 THEN f[i - 1]
                 ELSE IF Len(dests[i].title) < 2 THEN f[i - 1]
                      ELSE Append(f[i - 1], dests[i])
    IN f[Len(dests)]

\* chapters that end on the page where the next one starts
ChaptersSharingPages(entries, numPages) ==
    [i \in 1..Len(entries) |->
        [title |-> entries[i].title,
         startPage |-> entries[i].pageNum,
         endPage |-> IF i < Len(entries) THEN entries[i + 1].pageNum ELSE numPages,
         type |-> "pdf-chapter"]]

\* chapters from entries with a title and a start page: each ends on the page
\* before the next entry's start, the last one on the last page
ChaptersFromStarts(entries, numPages) ==
    [i \in 1..Len(entries) |->
        [title |-> entries[i].title,
         startPage |-> entries[i].pageNum,
         endPage |-> IF i < Len(entries) THEN entries[i + 1].pageNum - 1 ELSE numPages,
         type |-> "pdf-chapter"]]

ExtractChaptersFromTOCLinks(linkAnnotations, numPages) ==
    LET allChapters ==
            SortByPageNum(DistinctPages(SortByPageNum(LinkDestinations(linkAnnotations))))
        found == ChaptersFromStarts(allChapters, numPages)
    IN IF Len(found) > 0 THEN Some(found) ELSE Null

-----------------------------------------------------------------------------
(* PDFParser.extractChaptersFromTOC                                        *)

\* the TOC indicators tested on a page's lower-cased text
IsTocText(pageText) ==
    \/ Includes(pageText, "table of contents")
    \/ Includes(pageText, "contents")
    \/ Includes(pageText, "índice")
    \/ Trim(pageText) = "contents"

\* tocPageNum: the first readable page among the first 20 with a TOC
\* indicator; 0 for null
FindTocPage(doc) ==
    LET hits == {p \in 1..Min(TocScanPages, doc.numPages) :
                    /\ doc.pages[p].read = "ok"
                    /\ IsTocText(ToLowerCase(Join(Strs(doc.pages[p].items), " ")))}
    IN IF hits = {} THEN 0 ELSE CHOOSE p \in hits : \A q \in hits : p <= q

\* the text of a line: its fragments joined by a space, trimmed
LineText(line) == Trim(Join(Strs(line), " "))

\* the fragments grouped into lines by their rounded y
GroupLines(items) ==
    LET f[i \in 0..Len(items)] ==
            IF i = 0 THEN [lines |-> <<>>, currentLine |-> <<>>, lastY |-> 0]
            ELSE LET prev == f[i - 1]
                     y == items[i].y
                 IN IF i > 1 /\ Abs(y - prev.lastY) > LineTolerance
                    THEN [lines |-> IF Len(prev.currentLine) > 0
                                    THEN Append(prev.lines, LineText(prev.currentLine))
                                    ELSE prev.lines,
                          currentLine |-> <<items[i]>>,
                          lastY |-> y]
                    ELSE [lines |-> prev.lines,
                          currentLine |-> Append(prev.currentLine, items[i]),
                          lastY |-> y]
        last == f[Len(items)]
    IN IF Len(last.currentLine) > 0
       THEN Append(last.lines, LineText(last.currentLine))
       ELSE last.lines

\* the number of digits that end s[1..e]
DigitsBefore(s, e) ==
    LET f[k \in 0..Len(s)] ==
            IF k < e /\ IsDigit(Char(s, e - k)) THEN f[k + 1] ELSE k
    IN f[0]

\* /^\d+$/
AllDigits(s) == Len(s) > 0 /\ DigitRun(s, 1) = Len(s)

\* replace(/\.+$/, '')
StripTrailingDots(s) ==
    LET f[k \in 0..Len(s)] ==
            IF k < Len(s) /\ Char(s, Len(s) - k) = "." THEN f[k + 1] ELSE k
    IN SubSeq(s, 1, Len(s) - f[0])

\* one line of the TOC page: text.match(/(\d+)\s*$/) gives the printed page
\* number, the text before it the title; ok = the line yields an entry
ParseTocLine(text) ==
    LET e == Len(text) - TrailingSpaces(text)
        d == DigitsBefore(text, e)
        title == Trim(StripTrailingDots(SubSeq(text, 1, e - d)))
        pageNum == ParseInt(SubSeq(text, e - d + 1, e))
    IN [ok |-> /\ Len(text) > 0
               /\ ~Includes(ToLowerCase(text), "table of contents")
               /\ d >= 1
               /\ Len(title) > 2
               /\ ~AllDigits(title),
        title |-> title,
        pageNum |-> pageNum]

TocEntries(lines) ==
    LET f[i \in 0..Len(lines)] ==
            IF i = 0 THEN <<>>
            ELSE LET entry == ParseTocLine(lines[i])
                 IN IF entry.ok
                    THEN Append(f[i - 1], [title |-> entry.title, pageNum |-> entry.pageNum])
                    ELSE f[i - 1]
    IN f[Len(lines)]

\* mainChapters: the entries that are no subsection and no bare number
IsMainEntry(entry) == ~MatchesNumericSection(entry.title) /\ ~AllDigits(entry.title)

\* .toLowerCase().replace(/[^\w\s]/g, '')
CleanText(s) == KeepOnly(ToLowerCase(s), LAMBDA c : IsWordChar(c) \/ IsSpace(c))

\* the page, searched around the printed page number, whose leading text
\* contains the entry's title; 0 when no page does
FindTitlePage(doc, entry, tocPageNum) ==
    LET searchStart == Max(tocPageNum, entry.pageNum - SearchBefore)
        searchEnd == Min(doc.numPages, entry.pageNum + SearchAfter)
        cleanTitle == Trim(CleanText(entry.title))
        hits == {p \in searchStart..searchEnd :
                    /\ doc.pages[p].read = "ok"
                    /\ Includes(CleanText(Join(Strs(FirstN(doc.pages[p].items, HeadItems)),
                                               " ")),
                                cleanTitle)}
    IN IF hits = {} THEN 0 ELSE CHOOSE p \in hits : \A q \in hits : p <= q

\* offsetSamples: actual page minus printed page, for the first entries found
OffsetSamplesOf(doc, mainChapters, tocPageNum) ==
    LET n == Min(OffsetSamples, Len(mainChapters))
        f[i \in 0..n] ==
            IF i = 0 THEN <<>>
            ELSE LET p == FindTitlePage(doc, mainChapters[i], tocPageNum)
                 IN IF p = 0 THEN f[i - 1]
                    ELSE Append(f[i - 1], p - mainChapters[i].pageNum)
    IN f[n]

SumSeq(q) ==
    LET f[i \in 0..Len(q)] == IF i = 0 THEN 0 ELSE f[i - 1] + q[i]
    IN f[Len(q)]

\* Math.round(sum / n): the nearest integer, a half rounded up
RoundDiv(sum, n) == (2 * sum + n) \div (2 * n)

\* pageOffset: the rounded mean of the samples, 0 without samples
PageOffset(samples) ==
    IF Len(samples) > 0 THEN RoundDiv(SumSeq(samples), Len(samples)) ELSE 0

ShiftBy(entries, offset) ==
    [i \in 1..Len(entries) |->
        [title |-> entries[i].title, pageNum |-> entries[i].pageNum + offset]]

\* the chapters of a TOC page without links
ChaptersFromTocText(doc, tocPageNum) ==
    LET tocEntries == TocEntries(GroupLines(doc.pages[tocPageNum].items))
        mainChapters == SelectSeq(tocEntries, IsMainEntry)
    IN IF Len(mainChapters) < MinMainChapters
       THEN Some(ChaptersFromStarts(tocEntries, doc.numPages))
       ELSE LET offset == PageOffset(OffsetSamplesOf(doc, mainChapters, tocPageNum))
            IN Some(ChaptersFromStarts(ShiftBy(mainChapters, offset), doc.numPages))

IsLinkWithDest(ann) == ann.subtype = "Link" /\ ann.hasDest

LinksOrText(doc, tocPageNum, linkAnnotations) ==
    IF Len(linkAnnotations) > 0
    THEN ExtractChaptersFromTOCLinks(linkAnnotations, doc.numPages)
    ELSE ChaptersFromTocText(doc, tocPageNum)

\* the body of the try block that reads the TOC page found
TocBody(doc, tocPageNum) ==
    IF doc.pages[tocPageNum].annotations.status = "throws" THEN Thrown
    ELSE LinksOrText(doc, tocPageNum,
                     SelectSeq(doc.pages[tocPageNum].annotations.list, IsLinkWithDest))

ChaptersOfTocPage(doc, tocPageNum) ==
    IF tocPageNum = 0 THEN Null ELSE Catch(TocBody(doc, tocPageNum), Null)

ExtractChaptersFromTOC(doc) == ChaptersOfTocPage(doc, FindTocPage(doc))

-----------------------------------------------------------------------------
(* PDFParser.detectChaptersFromContent                                     *)

RomanLetters == {"I", "V", "X", "L", "C", "D", "M"}

IsRoman(c) == c \in RomanLetters

\* the result of String.prototype.match: ok, and match[0]
NoMatch == [ok |-> FALSE, text |-> ""]

Matched(t) == [ok |-> TRUE, text |-> t]

FirstPositive(a, b) == IF a >= 1 THEN a ELSE b

\* (?:\s|:|$) at position `after` of text: the end of the match, 0 without
TerminatorEnd(text, after) ==
    IF after > Len(text) THEN Len(text)
    ELSE IF IsSpace(Char(text, after)) \/ Char(text, after) = ":" THEN after
    ELSE 0

\* (\d+|[IVXLCDM]+)(?:\s|:|$) at position p of text, the number being `run`
\* characters long
NumberEnd(text, p, run) == IF run >= 1 THEN TerminatorEnd(text, p + run) ELSE 0

\* \s+(\d+|[IVXLCDM]+)(?:\s|:|$) at position k of text, the white space
\* being n characters long: the end of the match, 0 without one
SpacedNumberEnd(text, k, n) ==
    IF n >= 1
    THEN NumberEnd(text, k + n,
                   FirstPositive(DigitRun(text, k + n), RunOf(text, k + n, IsRoman)))
    ELSE 0

NumberedTail(text, k) == SpacedNumberEnd(text, k, SpaceRun(text, k))

\* the least index i of q with q[i] > 0; 0 without one
FirstHit(q) ==
    IF \A i \in 1..Len(q) : q[i] = 0 THEN 0
    ELSE CHOOSE i \in 1..Len(q) : q[i] > 0 /\ \A j \in 1..(i - 1) : q[j] = 0

PrefixMatch(text, end) == IF end > 0 THEN Matched(SubSeq(text, 1, end)) ELSE NoMatch

EndAtFirstHit(ends, i) == IF i = 0 THEN 0 ELSE ends[i]

\* /^(alt1|alt2|...)\s+(\d+|[IVXLCDM]+)(?:\s|:|$)/: the alternatives are tried
\* in order, the first after which the rest matches wins
NumberedEnds(text, alts) ==
    [i \in 1..Len(alts) |->
        IF HasAt(text, alts[i], 1) THEN NumberedTail(text, Len(alts[i]) + 1) ELSE 0]

FirstEnd(ends) == EndAtFirstHit(ends, FirstHit(ends))

MatchNumbered(text, alts) == PrefixMatch(text, FirstEnd(NumberedEnds(text, alts)))

\* (?:\s+\w+|$) at position k of text, after n white space characters and w
\* word characters: the end of the match, 0 without one
WordOrEnd(text, k, n, w) ==
    IF n >= 1 /\ w >= 1 THEN k - 1 + n + w
    ELSE IF k = Len(text) + 1 THEN Len(text)
    ELSE 0

SpacedWordEnd(text, k, n) == WordOrEnd(text, k, n, RunOf(text, k + n, IsWordChar))

\* ^(\d+)\.(?:\s+\w+|$) with d leading digits
NumberDotEnd(text, d) ==
    IF d >= 1 /\ Char(text, d + 1) = "."
    THEN SpacedWordEnd(text, d + 2, SpaceRun(text, d + 2))
    ELSE 0

\* /^(\d+)\.(?:\s+\w+|$)/
MatchNumberDot(text) == PrefixMatch(text, NumberDotEnd(text, DigitRun(text, 1)))

ContentSectionNames ==
    {"introduction", "conclusion", "preface", "epilogue", "appendix",
     "bibliography", "references", "index"}

MoreSectionNames == {"foreword", "acknowledgments", "dedication", "abstract", "summary"}

\* /^(name1|name2|...)$/i
MatchName(text, names) ==
    IF ToLowerCase(text) \in names THEN Matched(text) ELSE NoMatch

FirstOk(ms) ==
    IF \A i \in 1..Len(ms) : ~ms[i].ok THEN NoMatch
    ELSE ms[CHOOSE i \in 1..Len(ms) : ms[i].ok /\ \A j \in 1..(i - 1) : ~ms[j].ok]

\* mainChapterPatterns, tried in order: the first that matches gives match[0]
MatchMainChapter(text) ==
    FirstOk(<<MatchNumbered(text, <<"Chapter", "CHAPTER", "Chap.", "Chap">>),
              MatchNumbered(text, <<"Part", "PART">>),
              MatchNumberDot(text),
              MatchName(text, ContentSectionNames),
              MatchName(text, MoreSectionNames)>>)

SectionNumberAt(text, k, n) ==
    n >= 1 /\ MatchesNumericSection(SubSeq(text, k + n, Len(text)))

\* /^(Section|SECTION|Sec\.?)\s+\d+\.\d+/
MatchesSectionNumber(text) ==
    \E alt \in {"Section", "SECTION", "Sec.", "Sec"} :
        /\ HasAt(text, alt, 1)
        /\ SectionNumberAt(text, Len(alt) + 1, SpaceRun(text, Len(alt) + 1))

\* subsectionPatterns
IsSubsection(text) == MatchesNumericSection(text) \/ MatchesSectionNumber(text)

IsNumeralChar(c) == IsDigit(c) \/ IsRoman(c)

\* the least position of s with a character in class cls; 0 without one
FirstOf(s, cls(_)) ==
    IF \A i \in 1..Len(s) : ~cls(Char(s, i)) THEN 0
    ELSE CHOOSE i \in 1..Len(s) : cls(Char(s, i)) /\ \A j \in 1..(i - 1) : ~cls(Char(s, j))

NumeralAt(matched, i) ==
    IF i = 0 THEN matched
    ELSE IF IsDigit(Char(matched, i))
         THEN SubSeq(matched, i, i + DigitRun(matched, i) - 1)
         ELSE SubSeq(matched, i, i + RunOf(matched, i, IsRoman) - 1)

\* match[0].match(/(\d+|[IVXLCDM]+)/): the first run of digits or of roman
\* numeral letters in the matched text; the matched text itself without one
ChapterNumOf(matched) == NumeralAt(matched, FirstOf(matched, IsNumeralChar))

\* pageText: the non-blank ones of the fragments, each followed by a space
PageTextOf(head) ==
    LET f[i \in 0..Len(head)] ==
            IF i = 0 THEN ""
            ELSE IF Len(Trim(head[i].str)) > 0
                 THEN f[i - 1] \o head[i].str \o " " ELSE f[i - 1]
    IN f[Len(head)]

\* combinedText: pageText of the first 10 fragments, trimmed
CombinedText(items) == Trim(PageTextOf(FirstN(items, HeadItems)))

\* a page whose heading matched: recorded unless its chapter number was seen
RecordChapter(acc, p, title, chapterNum) ==
    IF chapterNum \in acc.seenChapters THEN acc
    ELSE [found |-> Append(acc.found, [title |-> title, pageNum |-> p]),
          seenChapters |-> acc.seenChapters \cup {chapterNum},
          threw |-> acc.threw]

RecordMatch(acc, p, match) ==
    IF match.ok THEN RecordChapter(acc, p, match.text, ChapterNumOf(match.text)) ELSE acc

\* one page of the first pass, its heading being combinedText
ScanHeading(acc, p, combinedText) ==
    IF IsSubsection(combinedText) THEN acc
    ELSE RecordMatch(acc, p, MatchMainChapter(combinedText))

\* a page read outside any try block: the exception leaves the loop
ScanPageUncaught(acc, p, page) ==
    IF page.read = "throws" THEN [acc EXCEPT !.threw = TRUE]
    ELSE ScanHeading(acc, p, CombinedText(page.items))

\* one page of the first pass, in its own try block: a page that cannot be
\* read is logged and skipped
ScanPage(acc, p, page) ==
    IF page.read = "throws" THEN acc
    ELSE ScanHeading(acc, p, CombinedText(page.items))

\* the first pass over every page: potentialChapters are the pages whose
\* heading matches a main chapter pattern and whose chapter number was not
\* seen on an earlier page; threw = an exception left the loop
ScanPages(doc) ==
    LET f[p \in 0..doc.numPages] ==
            IF p = 0 THEN [found |-> <<>>, seenChapters |-> {}, threw |-> FALSE]
            ELSE ScanPage(f[p - 1], p, doc.pages[p])
    IN f[doc.numPages]

ChaptersOfScan(scan, numPages) ==
    IF scan.threw THEN Thrown ELSE Some(ChaptersFromStarts(scan.found, numPages))

DetectChaptersFromContent(doc) == ChaptersOfScan(ScanPages(doc), doc.numPages)

-----------------------------------------------------------------------------
(* PDFParser.createPageBasedChapters                                       *)

\* the whole document with 0-based page numbers
PageBasedFromZero(numPages) ==
    Some(<<[title |-> "Full Document", startPage |-> 0, endPage |-> numPages - 1,
            type |-> "pdf-full"]>>)

CreatePageBasedChapters(numPages) ==
    Some(<<[title |-> "Full Document", startPage |-> 1, endPage |-> numPages,
            type |-> "pdf-full"]>>)

-----------------------------------------------------------------------------
(* parseEpubStructure: the chapter of a spine item and its title.          *)

XhtmlType == "application/xhtml+xml"

\* String.prototype.lastIndexOf, counted from 1: 0 when c is not in s
LastIndexOf(s, c) ==
    LET hits == {i \in 1..Len(s) : Char(s, i) = c}
    IN IF hits = {} THEN 0 ELSE CHOOSE i \in hits : \A j \in hits : j <= i

\* s.substring(0, n)
Prefix(s, n) == IF n <= 0 THEN "" ELSE SubSeq(s, 1, Min(n, Len(s)))

\* s.substring(n), n counted from 0
Suffix(s, n) == IF n >= Len(s) THEN "" ELSE SubSeq(s, n + 1, Len(s))

\* opfPath.substring(0, opfPath.lastIndexOf('/') + 1) + href
FullPath(opfPath, href) == Prefix(opfPath, LastIndexOf(opfPath, "/")) \o href

\* items.find(i => i.getAttribute('id') === idref): 0 when there is none
FindItem(items, idref) ==
    LET hits == {i \in 1..Len(items) : items[i].id = idref}
    IN IF hits = {} THEN 0 ELSE CHOOSE i \in hits : \A j \in hits : i <= j

\* the manifest has the item, whatever its media-type
IsManifestItem(items, idref) == FindItem(items, idref) # 0

\* item && item.getAttribute('media-type') === 'application/xhtml+xml'
IsChapterItem(items, idref) ==
    /\ FindItem(items, idref) # 0
    /\ items[FindItem(items, idref)].mediaType = XhtmlType

\* the first of the strings that is not empty, "" when all are
FirstNonEmpty(strs) ==
    LET hits == {i \in 1..Len(strs) : strs[i] # ""}
    IN IF hits = {} THEN "" ELSE strs[CHOOSE i \in hits : \A j \in hits : i <= j]

\* getElementsByTagName(tag)
Tagged(elements, tag) == SelectSeq(elements, LAMBDA e : e.tag = tag)

\* getElementsByClassName(className)
WithClass(elements, className) == SelectSeq(elements, LAMBDA e : e.class = className)

\* elements[0].textContent.trim(), "" without elements
FirstText(elements) == IF Len(elements) > 0 THEN Trim(elements[1].text) ELSE ""

\* Methods 1 and 2: the first heading of the body, of the document
HeadingTitle(doc) == FirstText(doc.headings)

SimpleSelectors == <<"h1", "h2", "h3">>

\* Method 3: the first h1, else the first h2, else the first h3; the loop
\* stops at the first tag the document has, whatever its text
SimpleHeadingTitle(doc) ==
    LET has == {i \in 1..Len(SimpleSelectors) :
                    Len(Tagged(doc.headings, SimpleSelectors[i])) > 0}
    IN IF has = {} THEN ""
       ELSE FirstText(Tagged(doc.headings,
                             SimpleSelectors[CHOOSE i \in has : \A j \in has : i <= j]))

CommonClasses == <<"chapter-title", "chapter-heading", "title">>

\* Method 4: the first element of the first class whose first element has text
ClassTitle(doc) ==
    FirstNonEmpty([i \in 1..Len(CommonClasses) |->
                      FirstText(WithClass(doc.classed, CommonClasses[i]))])

MaxTitleText == 100

\* text.length > 0 && text.length < 100 && !text.includes(' - ')
IsTitleLike(text) ==
    Len(text) > 0 /\ Len(text) < MaxTitleText /\ ~Includes(text, " - ")

TitleLikeText(e) == IF IsTitleLike(Trim(e.text)) THEN Trim(e.text) ELSE ""

BoldTags == <<"b", "strong">>

BoldTexts(elements) == [i \in 1..Len(elements) |-> TitleLikeText(elements[i])]

\* Method 5: the first b element with a title-like text, else the first such
\* strong element
BoldTitle(doc) ==
    FirstNonEmpty([i \in 1..Len(BoldTags) |->
                      FirstNonEmpty(BoldTexts(Tagged(doc.bolds, BoldTags[i])))])

\* s ends with suffix
EndsWith(s, suffix) ==
    Len(suffix) <= Len(s) /\ Suffix(s, Len(s) - Len(suffix)) = suffix

\* .replace(/\.(xhtml|html)$/, '')
StripExtension(name) ==
    IF EndsWith(name, ".xhtml") THEN Prefix(name, Len(name) - 6)
    ELSE IF EndsWith(name, ".html") THEN Prefix(name, Len(name) - 5)
    ELSE name

\* fullPath.split('/').pop().replace(/\.(xhtml|html)$/, '')
FileName(fullPath) == StripExtension(Suffix(fullPath, LastIndexOf(fullPath, "/")))

\* /chapter|ch\d+|part/i
MatchesChapterFile(filename) ==
    \/ Includes(ToLowerCase(filename), "chapter")
    \/ \E i \in 1..Len(filename) :
          HasAt(ToLowerCase(filename), "ch", i) /\ IsDigit(Char(filename, i + 2))
    \/ Includes(ToLowerCase(filename), "part")

\* .replace(/[-_]/g, ' ')
DashesToSpaces(s) ==
    MapChars(s, LAMBDA t, i : IF Char(t, i) \in {"-", "_"} THEN " " ELSE Char(t, i))

\* .replace(/\b\w/g, l => l.toUpperCase())
CapitalizeWords(s) ==
    MapChars(s, LAMBDA t, i : IF IsWordChar(Char(t, i)) /\ ~IsWordChar(Char(t, i - 1))
                               THEN UpperChar(Char(t, i)) ELSE Char(t, i))

TitleOfFileName(filename) ==
    IF MatchesChapterFile(filename) THEN CapitalizeWords(DashesToSpaces(filename))
    ELSE ""

\* Method 6: the file name, when it names a chapter or a part
FileTitle(fullPath) == TitleOfFileName(FileName(fullPath))

SkipPatterns == <<" - ", " by ", "|", ":", "author">>

\* a title element that is taken whatever its text
NeverSkip(titleText) == FALSE

ShouldSkip(titleText) ==
    \E i \in 1..Len(SkipPatterns) :
        Includes(ToLowerCase(titleText), ToLowerCase(SkipPatterns[i]))

TitleTextOrNone(titleText) ==
    IF ~ShouldSkip(titleText) /\ Len(titleText) < MaxTitleText THEN titleText ELSE ""

\* Method 7: the title element, unless it looks like the book's title
TitleTagTitle(doc) ==
    IF Len(doc.titles) > 0 THEN TitleTextOrNone(Trim(doc.titles[1])) ELSE ""

\* `Chapter ${chapters.length + 1}`
\* a fallback that numbers the chapters from 0
GenericTitleFromZero(count) == "Chapter " \o NumStr(count)

\* `Chapter ${chapters.length + 1}`
GenericTitle(count) == "Chapter " \o NumStr(count + 1)

\* .replace(/\s+/g, ' ')
CollapseSpaces(s) ==
    MapChars(s, LAMBDA t, i : IF ~IsSpace(Char(t, i)) THEN Char(t, i)
                               ELSE IF IsSpace(Char(t, i - 1)) THEN "" ELSE " ")

MaxTitleLength == 60

KeptTitleLength == 57

\* if (chapterTitle.length > 60) chapterTitle.substring(0, 57) + '...'
Shorten(title) ==
    IF Len(title) > MaxTitleLength THEN Prefix(title, KeptTitleLength) \o "..."
    ELSE title

\* the title found, as it is
Uncleaned(title) == title

\* the clean-up of the title found
CleanTitle(title) == Shorten(Trim(CollapseSpaces(title)))

\* a method without the one after it
KeepFirst(chapterTitle, next) == chapterTitle

\* `if (!chapterTitle)`: the next method runs when the title is still empty
OrElse(chapterTitle, next) == IF chapterTitle # "" THEN chapterTitle ELSE next

\* the title of a content document that could be read
TitleOfContent(doc, fullPath, count) ==
    CleanTitle(
        OrElse(HeadingTitle(doc),
        OrElse(HeadingTitle(doc),
        OrElse(SimpleHeadingTitle(doc),
        OrElse(ClassTitle(doc),
        OrElse(BoldTitle(doc),
        OrElse(FileTitle(fullPath),
        OrElse(TitleTagTitle(doc),
               GenericTitle(count)))))))))

\* zip.file(fullPath).async('string'), parsed as text/html: the document, or
\* an exception when the archive has no such file
ReadContent(archive, fullPath) ==
    IF fullPath \in DOMAIN archive.files THEN archive.files[fullPath]
    ELSE [read |-> "throws", headings |-> <<>>, classed |-> <<>>, bolds |-> <<>>,
          titles |-> <<>>]

\* try { ...title of the content... } catch (e) { `Chapter ${n + 1}` }
ChapterTitleOf(content, fullPath, count) ==
    IF content.read = "throws" THEN GenericTitle(count)
    ELSE TitleOfContent(content, fullPath, count)

\* the chapter pushed for an XHTML item of the manifest
ChapterOfItem(archive, item, count) ==
    [title |-> ChapterTitleOf(ReadContent(archive, FullPath(archive.opfPath, item.href)),
                              FullPath(archive.opfPath, item.href), count),
     href |-> FullPath(archive.opfPath, item.href)]

\* for an item whose file cannot be read, a turn that pushes nothing
SkipUnreadItem(archive, list, idref) ==
    IF /\ IsChapterItem(archive.manifest, idref)
       /\ FullPath(archive.opfPath, archive.manifest[FindItem(archive.manifest, idref)].href)
              \in DOMAIN archive.files
    THEN Append(list, ChapterOfItem(archive,
                                    archive.manifest[FindItem(archive.manifest, idref)],
                                    Len(list)))
    ELSE list

\* one turn of `for (const itemref of itemrefs)`
WithSpineItem(archive, list, idref) ==
    IF IsChapterItem(archive.manifest, idref)
    THEN Append(list, ChapterOfItem(archive,
                                    archive.manifest[FindItem(archive.manifest, idref)],
                                    Len(list)))
    ELSE list

\* metadata title, trimmed, or 'Unknown Title'
BookTitle(archive) ==
    IF Len(archive.titles) > 0 THEN Trim(archive.titles[1]) ELSE "Unknown Title"

-----------------------------------------------------------------------------
(* The archives parseEpubStructure is run on.                              *)

\* a content document: its headings, its elements with a class, its bold
\* elements and its title elements, each in document order
Content(headings, classed, bolds, titles) ==
    [read |-> "ok", headings |-> headings, classed |-> classed, bolds |-> bolds,
     titles |-> titles]

Element(tag, text) == [tag |-> tag, class |-> "", text |-> text]

Classed(class, text) == [tag |-> "p", class |-> class, text |-> text]

EmptyContent == Content(<<>>, <<>>, <<>>, <<>>)

LongHeading ==
    "A heading that runs on for much longer than the sixty characters a title may have"

\* no heading, no class, no bold text, <title>Chapter Three - MyBook</title>
TitledContent == Content(<<>>, <<>>, <<>>, <<"Chapter Three - MyBook">>)

ContentSamples ==
    {EmptyContent,
     Content(<<Element("h2", "  The  Start\n")>>, <<>>, <<>>, <<"Book - Author">>),
     Content(<<Element("h2", " "), Element("h1", "Real")>>, <<>>, <<>>, <<>>),
     Content(<<Element("h4", " ")>>, <<Classed("title", ""), Classed("chapter-title", "Classy")>>,
             <<>>, <<>>),
     Content(<<>>, <<Classed("title", " ")>>,
             <<Element("strong", "Strong"), Element("b", "A - B"), Element("b", "Bold")>>,
             <<>>),
     Content(<<>>, <<>>, <<>>, <<" Plain title ">>),
     Content(<<>>, <<>>, <<Element("b", "")>>, <<"Book: by the author">>),
     Content(<<Element("h1", LongHeading)>>, <<>>, <<>>, <<>>),
     TitledContent}

ManifestIds == [i \in 1..MaxManifest |-> "id" \o NumStr(i)]

\* what an itemref can refer to: an item of the manifest, or nothing
IdRefs == {"id0"} \cup {ManifestIds[i] : i \in 1..MaxManifest}

Hrefs == {"ch1.xhtml", "text/notes.xhtml", "gone.xhtml"}

MediaTypes == {XhtmlType, "text/css"}

OpfPaths == {"content.opf", "OEBPS/content.opf"}

Archive(opfPath, titles, manifest, spine, files) ==
    [container |-> "ok", opfPath |-> opfPath, titles |-> titles,
     manifest |-> manifest, spine |-> spine, files |-> files]

\* an archive without container.xml, without a rootfile in it, or without
\* the package file the rootfile names
BrokenArchive(why) ==
    [container |-> why, opfPath |-> "", titles |-> <<>>, manifest |-> <<>>,
     spine |-> <<>>, files |-> <<>>]

NoZip == BrokenArchive("none")

NoBook == [title |-> "", chapters |-> <<>>]

IsBrokenArchive(archive) ==
    \E why \in {"no container", "no rootfile", "no package"} :
        archive = BrokenArchive(why)

\* the files of an archive whose manifest and spine are generated: ch1.xhtml
\* and text/notes.xhtml are there, without markup that gives a title
PlainFiles(opfPath) ==
    [path \in {FullPath(opfPath, "ch1.xhtml"), FullPath(opfPath, "text/notes.xhtml")} |->
        EmptyContent]

\* an archive with any manifest of items with distinct ids and any spine
IsSpineArchive(archive) ==
    \E opfPath \in OpfPaths, k \in 0..MaxManifest, n \in 0..MaxSpine :
        \E items \in [1..k -> [href : Hrefs, mediaType : MediaTypes]] :
            \E spine \in [1..n -> IdRefs] :
                archive = Archive(opfPath, <<"A Book">>,
                                  [i \in 1..k |-> [id |-> ManifestIds[i],
                                                   href |-> items[i].href,
                                                   mediaType |-> items[i].mediaType]],
                                  spine, PlainFiles(opfPath))

TitleHrefs ==
    {"page.xhtml", "Chap03.xhtml", "chap03.xhtml", "ch03.xhtml", "my_chapter-one.html",
     "part2.htm"}

\* an archive of one content document, of any markup, read once or twice
IsTitleArchive(archive) ==
    \E href \in TitleHrefs, content \in ContentSamples, n \in 1..2, titles \in {<<>>, <<" T ">>} :
        archive = Archive("OEBPS/content.opf", titles,
                          <<[id |-> "id1", href |-> href, mediaType |-> XhtmlType]>>,
                          [i \in 1..n |-> "id1"],
                          [path \in {FullPath("OEBPS/content.opf", href)} |-> content])

-----------------------------------------------------------------------------
(* Markup: the tree DOMParser gives for a content document. A node is a    *)
(* text node or an element with its child nodes.                           *)

Text(t) == [type |-> "text", tag |-> "", text |-> t, children |-> <<>>]

El(tag, children) == [type |-> "element", tag |-> tag, text |-> "", children |-> children]

\* the text nodes under a node, in document order, without those inside an
\* element whose tag is in `hidden`
RECURSIVE TextNodes(_, _)
TextNodes(node, hidden) ==
    IF node.type = "text" THEN <<node.text>>
    ELSE IF node.tag \in hidden THEN <<>>
    ELSE LET f[i \in 0..Len(node.children)] ==
                 IF i = 0 THEN <<>> ELSE f[i - 1] \o TextNodes(node.children[i], hidden)
         IN f[Len(node.children)]

\* Node.textContent
TextContent(node) == Join(TextNodes(node, {}), "")

\* the elements under a node and the node itself, in document order
RECURSIVE ElementsOf(_)
ElementsOf(node) ==
    IF node.type = "text" THEN <<>>
    ELSE LET f[i \in 0..Len(node.children)] ==
                 IF i = 0 THEN <<node>> ELSE f[i - 1] \o ElementsOf(node.children[i])
         IN f[Len(node.children)]

-----------------------------------------------------------------------------
(* extractTextFromHtml                                                     *)

SkipElements == {"style", "script", "noscript"}

BlockElements ==
    {"p", "div", "h1", "h2", "h3", "h4", "h5", "h6", "br", "li", "section", "article",
     "header", "footer", "nav", "aside", "blockquote", "pre", "td", "th"}

SpaceAfterElements == {"span", "a", "em", "strong", "b", "i", "u"}

\* if (blockElements.includes(tagName) && text.length > 0) text += '\n'
BlockBreak(tag, text) ==
    IF tag \in BlockElements /\ Len(text) > 0 THEN text \o "\n" ELSE text

\* if (spaceAfterElements.includes(tagName) && text.length > 0 &&
\*     !text.endsWith(' ')) text += ' '
InlineSpace(tag, text) ==
    IF tag \in SpaceAfterElements /\ Len(text) > 0 /\ Char(text, Len(text)) # " "
    THEN text \o " " ELSE text

\* traverse(node): `text` before the node, and after it
RECURSIVE Traverse(_, _)
Traverse(node, text) ==
    IF node.type = "text" THEN text \o node.text
    ELSE IF node.tag \in SkipElements THEN text
    ELSE LET f[i \in 0..Len(node.children)] ==
                 IF i = 0 THEN BlockBreak(node.tag, text)
                 ELSE Traverse(node.children[i], f[i - 1])
         IN InlineSpace(node.tag, BlockBreak(node.tag, f[Len(node.children)]))

\* the number of characters of class cls that end at position i of s
RunBefore(s, i, cls(_)) ==
    LET f[k \in 0..Len(s)] ==
            IF k < i /\ cls(Char(s, i - k)) THEN f[k + 1] ELSE k
    IN IF i < 1 \/ i > Len(s) THEN 0 ELSE f[0]

\* [ \t]
IsBlank(c) == c \in {" ", "\t"}

\* .replace(/\r\n/g, '\n')
NormalizeLineEnds(s) ==
    MapChars(s, LAMBDA t, i : IF Char(t, i) = "\r" /\ Char(t, i + 1) = "\n" THEN ""
                               ELSE Char(t, i))

\* .replace(/\n{3,}/g, '\n\n')
ReduceLineBreaks(s) ==
    MapChars(s, LAMBDA t, i :
        IF Char(t, i) = "\n"
           /\ RunBefore(t, i, LAMBDA c : c = "\n") + RunOf(t, i, LAMBDA c : c = "\n") - 1 >= 3
           /\ RunBefore(t, i, LAMBDA c : c = "\n") > 2
        THEN "" ELSE Char(t, i))

\* .replace(/[ \t]+/g, ' ')
ReduceBlanks(s) ==
    MapChars(s, LAMBDA t, i : IF ~IsBlank(Char(t, i)) THEN Char(t, i)
                               ELSE IF IsBlank(Char(t, i - 1)) THEN "" ELSE " ")

\* .replace(/\n[ \t]+/g, '\n')
DropLeadingBlanks(s) ==
    MapChars(s, LAMBDA t, i :
        IF IsBlank(Char(t, i)) /\ Char(t, i - RunBefore(t, i, IsBlank)) = "\n"
        THEN "" ELSE Char(t, i))

\* .replace(/[ \t]+\n/g, '\n')
DropTrailingBlanks(s) ==
    MapChars(s, LAMBDA t, i :
        IF IsBlank(Char(t, i)) /\ Char(t, i + RunOf(t, i, IsBlank)) = "\n"
        THEN "" ELSE Char(t, i))

\* the clean-up of the text gathered
CleanUpText(text) ==
    Trim(DropTrailingBlanks(DropLeadingBlanks(ReduceBlanks(
        ReduceLineBreaks(NormalizeLineEnds(text))))))

\* the element given to extractTextFromHtml when there is none
NoElement == [type |-> "null", tag |-> "", text |-> "", children |-> <<>>]

ExtractTextFromHtml(element) ==
    IF element = NoElement THEN "" ELSE CleanUpText(Traverse(element, ""))

-----------------------------------------------------------------------------
(* PDFParser.extractTextFromPDFRange                                       *)

\* pageText: item.str + ' ' for every item with a str
PageTextWithSpaces(items) ==
    LET f[i \in 0..Len(items)] ==
            IF i = 0 THEN ""
            ELSE IF items[i].str # "" THEN f[i - 1] \o items[i].str \o " " ELSE f[i - 1]
    IN f[Len(items)]

\* fullText += `\n\n--- Page ${pageNum} ---\n\n` + pageText.trim() + '\n'
WithPageText(fullText, pageNum, pageText) ==
    IF Trim(pageText) # ""
    THEN fullText \o "\n\n--- Page " \o NumStr(pageNum) \o " ---\n\n" \o Trim(pageText) \o "\n"
    ELSE fullText

\* getPage and getTextContent answer for this page
CanRead(doc, pageNum) ==
    pageNum >= 1 /\ pageNum <= doc.numPages /\ doc.pages[pageNum].read = "ok"

RangeError(startPage, endPage) ==
    "[Error extracting text from pages " \o NumStr(startPage) \o "-" \o NumStr(endPage) \o "]"

\* the text of the pages startPage..endPage; the error text when the
\* document does not open or one of the pages cannot be read
ExtractTextFromPDFRange(doc, startPage, endPage) ==
    IF doc.load # "ok" \/ \E p \in startPage..endPage : ~CanRead(doc, p)
    THEN RangeError(startPage, endPage)
    ELSE IF endPage < startPage THEN ""
    ELSE LET f[p \in (startPage - 1)..endPage] ==
                 IF p < startPage THEN ""
                 ELSE WithPageText(f[p - 1], p, PageTextWithSpaces(doc.pages[p].items))
         IN Trim(f[endPage])

-----------------------------------------------------------------------------
(* viewChapter: the text of an EPUB chapter.                               *)

\* the parsed content document: html, with a head and the body
Html(titles, body) ==
    El("html", <<El("head", [i \in 1..Len(titles) |-> El("title", <<Text(titles[i])>>)]),
                 body>>)

\* doc.body || doc.querySelector('body') || ...
RootElement(doc) == doc.children[2]

\* an element that is laid out puts its blocks on lines of their own and
\* shows no script or style
RECURSIVE RenderedText(_, _)
RenderedText(node, text) ==
    IF node.type = "text" THEN text \o node.text
    ELSE IF node.tag \in SkipElements THEN text
    ELSE LET f[i \in 0..Len(node.children)] ==
                 IF i = 0 THEN BlockBreak(node.tag, text)
                 ELSE RenderedText(node.children[i], f[i - 1])
         IN BlockBreak(node.tag, f[Len(node.children)])

\* rootElement.innerText: undefined where the platform has none, the
\* textContent of an element that is not rendered, the rendered text of one
\* that is
InnerText(root, layout) ==
    IF layout = "undefined" THEN ""
    ELSE IF layout = "rendered" THEN RenderedText(root, "")
    ELSE TextContent(root)

\* text.trim() of each string, the empty ones dropped
TrimmedTexts(strs) ==
    SelectSeq([i \in 1..Len(strs) |-> Trim(strs[i])], LAMBDA t : t # "")

\* the text nodes of every element but script and style, trimmed, the empty
\* ones dropped
DirectTexts(doc) == TrimmedTexts(TextNodes(doc, {"script", "style"}))

\* the markup with its script and style elements and its tags taken out,
\* the whitespace collapsed
StripTags(node) == Trim(CollapseSpaces(Join(TextNodes(node, {"script", "style"}), " ")))

TextSelectors ==
    {"p", "h1", "h2", "h3", "h4", "h5", "h6", "div", "span", "li", "td", "th", "blockquote"}

IsTextElement(e) == e.tag \in TextSelectors

TextContents(elements) == [i \in 1..Len(elements) |-> TextContent(elements[i])]

\* querySelectorAll('p, h1, ...'): the trimmed text of each, the empty ones
\* dropped
SelectedTexts(doc) ==
    TrimmedTexts(TextContents(SelectSeq(ElementsOf(doc), IsTextElement)))

\* if (textContent.length > 0) textContent.replace(/\s+/g, ' ').trim()
Flatten(textContent) ==
    IF Len(textContent) > 0 THEN Trim(CollapseSpaces(textContent)) ELSE textContent

NoTextError ==
    "Error: No text content could be extracted from this chapter. The chapter file may be empty, corrupted, or use an unsupported format."

\* the text viewChapter takes from a parsed chapter: innerText, textContent,
\* the text nodes of all elements, the text between the tags of the raw
\* content, flattened; then the selected elements, the stripped innerHTML,
\* the stripped raw content and the error text
ChapterTextOf(doc, layout) ==
    OrElse(OrElse(OrElse(
        Flatten(OrElse(OrElse(OrElse(InnerText(RootElement(doc), layout),
                                     TextContent(RootElement(doc))),
                              Join(DirectTexts(doc), " ")),
                       StripTags(doc))),
        Join(SelectedTexts(doc), "\n\n")),
        StripTags(RootElement(doc))),
        OrElse(StripTags(doc), NoTextError))

\* the text downloadFullBook takes from a parsed chapter:
\* extractTextFromHtml(rootElement), and when that is empty
\* (rootElement.textContent || rootElement.innerText || '') flattened
ExportTextOf(doc, layout) ==
    OrElse(ExtractTextFromHtml(RootElement(doc)),
           Trim(CollapseSpaces(OrElse(TextContent(RootElement(doc)),
                                      InnerText(RootElement(doc), layout)))))

-----------------------------------------------------------------------------
(* The documents parsePDF is run on.                                       *)

OutlineTitles == {"Chapter 1", "1.1 Setup", "Introduction", "2 Basics", "Notes"}

OutlineLevels == {0, 1}

OutlineNodes(numPages) ==
    [title : OutlineTitles, level : OutlineLevels, dest : {"none", "throws"},
     pageIndex : {0}]
    \cup [title : OutlineTitles, level : OutlineLevels, dest : {"page"},
          pageIndex : 0..(numPages - 1)]

\* depth-first lists of a tree: the first entry is at level 0 and an entry is
\* at most one level below the entry before it
IsPreOrder(nodes) ==
    /\ Len(nodes) > 0 => nodes[1].level = 0
    /\ \A i \in 2..Len(nodes) : nodes[i].level <= nodes[i - 1].level + 1

\* getOutline's answer
OutlineOf(status, nodes) == [status |-> status, nodes |-> nodes]

NoOutline == OutlineOf("null", <<>>)

\* the outline of the classification example: "Chapter 1", "1.1 Setup",
\* "Chapter 2" at levels 0, 1, 0, each resolving to some page
ExampleOutline(p1, p2, p3) ==
    OutlineOf("list",
              <<[title |-> "Chapter 1", level |-> 0, dest |-> "page", pageIndex |-> p1],
                [title |-> "1.1 Setup", level |-> 1, dest |-> "page", pageIndex |-> p2],
                [title |-> "Chapter 2", level |-> 0, dest |-> "page", pageIndex |-> p3]>>)

NoAnnotations == [status |-> "ok", list |-> <<>>]

\* a page of text fragments, one below the other
TextPage(strs) ==
    [read |-> "ok",
     items |-> [i \in 1..Len(strs) |-> [str |-> strs[i], y |-> 700 - 20 * i]],
     annotations |-> NoAnnotations]

BlankPage == TextPage(<<>>)

UnreadablePage == [read |-> "throws", items |-> <<>>, annotations |-> NoAnnotations]

Doc(n, o, pages) == [load |-> "ok", numPages |-> n, outline |-> o, pages |-> pages]

\* a file pdfjsLib cannot open: parsePDF throws before any stage
BrokenDoc(why) == [load |-> why, numPages |-> 0, outline |-> NoOutline, pages |-> <<>>]

\* no document is loaded
NoPdf == BrokenDoc("none")

IsBrokenDoc(doc) == \E why \in {"empty", "corrupt"} : doc = BrokenDoc(why)

\* a document whose outline is generated: absent, unreadable, or any tree
IsOutlineDoc(doc) ==
    \E n \in 1..MaxOutlinePages :
        LET blank == [p \in 1..n |-> BlankPage]
        IN \/ \E st \in {"throws", "null"} : doc = Doc(n, OutlineOf(st, <<>>), blank)
           \/ \E k \in 0..MaxOutline : \E ns \in [1..k -> OutlineNodes(n)] :
                 IsPreOrder(ns) /\ doc = Doc(n, OutlineOf("list", ns), blank)

\* a document that carries the example outline
IsExampleDoc(doc) ==
    \E n \in 1..MaxExamplePages :
        \E p1 \in 0..(n - 1), p2 \in 0..(n - 1), p3 \in 0..(n - 1) :
            doc = Doc(n, ExampleOutline(p1, p2, p3), [p \in 1..n |-> BlankPage])

TocTitles == {"Intro", "1.1 Setup"}

\* a table-of-contents page: the header, then a line per entry with its
\* title and printed page number
TocTextPage(entries) ==
    [read |-> "ok",
     items |-> <<[str |-> "Contents", y |-> 700]>> \o
               [i \in 1..(2 * Len(entries)) |->
                   [str |-> IF i % 2 = 1 THEN entries[(i + 1) \div 2].title
                                         ELSE NumStr(entries[i \div 2].printed),
                    y |-> 700 - 20 * ((i + 1) \div 2)]],
     annotations |-> NoAnnotations]

BodyPages == {BlankPage, TextPage(<<"Intro", "Some text">>), UnreadablePage}

\* a document without outline whose first page is a table of contents
IsTocDoc(doc) ==
    \E n \in 1..MaxPages, k \in 0..MaxTocEntries :
        \E entries \in [1..k -> [title : TocTitles, printed : 1..MaxPrinted]] :
            \E body \in [1..(n - 1) -> BodyPages] :
                doc = Doc(n, NoOutline, <<TocTextPage(entries)>> \o body)

\* the annotations of a page: of subtype Link or not, with a dest or not; a
\* dest resolves to a page ("page"), to nothing ("none") or throws; text is
\* what getTextNearRect finds under the annotation's rectangle
LinkTexts == {"", "Intro"}

Annotations(numPages) ==
    [subtype : {"Link"}, hasDest : {TRUE}, resolve : {"page"},
     pageIndex : 0..(numPages - 1), text : LinkTexts]
    \cup [subtype : {"Link"}, hasDest : {TRUE}, resolve : {"none", "throws"},
          pageIndex : {0}, text : {""}]
    \cup [subtype : {"Link", "Widget"}, hasDest : {FALSE}, resolve : {"none"},
          pageIndex : {0}, text : {""}]

LinkTocPage(status, list) ==
    [read |-> "ok", items |-> <<[str |-> "Contents", y |-> 700]>>,
     annotations |-> [status |-> status, list |-> list]]

\* a document without outline whose first page is a table of links
IsLinkDoc(doc) ==
    \E n \in 1..MaxPages :
        LET blank == [p \in 1..(n - 1) |-> BlankPage]
        IN \/ doc = Doc(n, NoOutline, <<LinkTocPage("throws", <<>>)>> \o blank)
           \/ \E k \in 1..MaxLinks : \E list \in [1..k -> Annotations(n)] :
                 doc = Doc(n, NoOutline, <<LinkTocPage("ok", list)>> \o blank)

ContentPages ==
    {BlankPage, UnreadablePage,
     TextPage(<<"Chapter 1", "Basics">>), TextPage(<<"Chapter 2">>),
     TextPage(<<"Part I">>), TextPage(<<"2.", "Methods">>),
     TextPage(<<"1.1 Setup">>), TextPage(<<"Introduction">>),
     TextPage(<<"Contents">>), TextPage(<<"The contents of a box">>)}

\* a document without outline, read page by page for headings
IsContentDoc(doc) ==
    \E n \in 1..MaxPages : \E pages \in [1..n -> ContentPages] :
        doc = Doc(n, NoOutline, pages)

\* a document of one page more than the TOC stage scans: its only text is
\* the line "Contents", on the last page scanned or on the page after it
IsLongDoc(doc) ==
    \E p \in {TocScanPages, TocScanPages + 1} :
        doc = Doc(TocScanPages + 1, NoOutline,
                  [q \in 1..(TocScanPages + 1) |->
                      IF q = p THEN TextPage(<<"Contents">>) ELSE BlankPage])

-----------------------------------------------------------------------------
(* The chapters viewChapter is asked for.                                  *)

ExampleBody ==
    El("body", <<El("h1", <<Text("T")>>), El("p", <<Text("One.")>>),
                 El("p", <<Text("Two.")>>)>>)

NodeSamples ==
    {El("h1", <<Text("T")>>), El("p", <<Text("One.")>>), El("p", <<Text("Two.")>>),
     Text(" \n"), El("script", <<Text("x()")>>), El("p", <<Text(" ")>>),
     El("div", <<El("b", <<Text("B")>>), Text("c  d")>>)}

\* the parser gives no two text nodes in a row
IsParsed(nodes) ==
    \A i \in 1..(Len(nodes) - 1) : nodes[i].type # "text" \/ nodes[i + 1].type # "text"

\* what is stored for the book and the chapter asked for, and how the
\* platform answers: book, chapter and file are found or not, the file has
\* bytes or none, type is the book's type (as stored, or as its file name
\* tells), archive says whether JSZip opens the file, entry whether it has
\* the chapter's href, document is the parsed chapter
SomeRequest ==
    [book |-> TRUE, chapter |-> TRUE, file |-> "found", type |-> "epub",
     archive |-> "ok", entry |-> TRUE, document |-> Html(<<>>, ExampleBody),
     layout |-> "text", pdf |-> NoPdf, startPage |-> 1, endPage |-> 1,
     title |-> "Chapter 1"]

NoRequest == [SomeRequest EXCEPT !.book = FALSE]

IsStoreRequest(r) ==
    \E book \in BOOLEAN, chapter \in BOOLEAN, file \in {"found", "missing", "empty"},
       type \in {"epub", "pdf", "other"}, archive \in {"ok", "corrupt"},
       entry \in BOOLEAN :
        r = [SomeRequest EXCEPT !.book = book, !.chapter = chapter, !.file = file,
                                !.type = type, !.archive = archive, !.entry = entry]

IsMarkupRequest(r) ==
    \E k \in 0..MaxNodes, titles \in {<<>>, <<"X">>},
       layout \in {"undefined", "text", "rendered"} :
        \E nodes \in [1..k -> NodeSamples] :
            /\ IsParsed(nodes)
            /\ r = [SomeRequest EXCEPT !.document = Html(titles, El("body", nodes)),
                                       !.layout = layout]

RangePages == {BlankPage, UnreadablePage, TextPage(<<"Chapter 1", "", "Basics ">>)}

IsRangeRequest(r) ==
    \E n \in 1..MaxRangePages, startPage \in 1..MaxRangePages,
       endPage \in 0..(MaxRangePages + 1) :
        \E pages \in [1..n -> RangePages], load \in {"ok", "corrupt"} :
            r = [SomeRequest EXCEPT !.type = "pdf",
                                    !.pdf = [Doc(n, NoOutline, pages) EXCEPT !.load = load],
                                    !.startPage = startPage, !.endPage = endPage]

-----------------------------------------------------------------------------
(* PDFParser.parsePDF                                                      *)

ButtonReady == [disabled |-> FALSE, textContent |-> "View & Download"]

NothingShown == [section |-> "chapters", title |-> "", content |-> ""]

\* the books downloadFullBook is asked for
SomeChapter ==
    [title |-> "Chapter 1", entry |-> "found", document |-> Html(<<>>, ExampleBody),
     layout |-> "text", startPage |-> 1, endPage |-> 1]

SomeBook ==
    [selected |-> TRUE, file |-> "found", type |-> "epub", title |-> "A Book",
     archive |-> "ok", pdf |-> NoPdf, numPages |-> 0, chapters |-> <<SomeChapter>>]

NoCurrentBook == [SomeBook EXCEPT !.selected = FALSE]

ExportReady == [disabled |-> FALSE, textContent |-> "Download Full Book as .txt"]

ExportBusy == [disabled |-> TRUE, textContent |-> "Processing..."]

NotSaved == [done |-> FALSE, fileName |-> "", text |-> ""]

NoFile == [present |-> FALSE, name |-> "", content |-> "empty"]

UploadReady == [disabled |-> FALSE, textContent |-> "Upload"]

\* a book an earlier session has left in the stores
StoredBook ==
    [id |-> "1", title |-> "Stored", fileName |-> "stored.epub", chapters |-> <<>>,
     type |-> "epub"]

\* no file is open and no chapter is shown; the stores are empty or hold
\* what an earlier session has put into them, and the page lists it
Init ==
    /\ pc = "idle"
    /\ pdf = NoPdf
    /\ chapters = Null
    /\ invoked = <<>>
    /\ stageOut = <<>>
    /\ result = Null
    /\ epc = "idle"
    /\ zip = NoZip
    /\ spineIndex = 0
    /\ bookChapters = <<>>
    /\ parsed = NoBook
    /\ vpc = "idle"
    /\ request = NoRequest
    /\ button = ButtonReady
    /\ currentChapterContent = ""
    /\ shown = NothingShown
    /\ alerted = ""
    /\ extracted = [done |-> FALSE, text |-> "", exported |-> ""]
    /\ xpc = "idle"
    /\ currentBook = NoCurrentBook
    /\ arrayBuffer = NoCurrentBook
    /\ chapterIndex = 1
    /\ fullBookText = ""
    /\ saved = NotSaved
    /\ exportAlert = ""
    /\ downloadBtn = ExportReady
    /\ upc = "idle"
    /\ upload = NoFile
    /\ books \in {<<>>, <<StoredBook>>}
    /\ epubFiles = [i \in 1..Len(books) |-> books[i].id]
    /\ booksList = books
    /\ uploadAlert = ""
    /\ uploadBtn = UploadReady
    /\ opc = "idle"
    /\ tocDoc = NoPdf
    /\ mainEntries = <<>>
    /\ sampleIndex = 1
    /\ offsetSamples = <<>>
    /\ pageOffset = 0
    /\ offsets = <<>>
    /\ tocChapters = <<>>
    /\ at = [i \in 1..MaxCalls |-> "idle"]
    /\ given = [i \in 1..MaxCalls |-> [kind |-> "none", pdf |-> NoPdf, zip |-> NoZip]]
    /\ locals = [i \in 1..MaxCalls |->
                    [chapters |-> Null, bookChapters |-> <<>>, spineIndex |-> 1]]
    /\ resolved = [i \in 1..MaxCalls |-> Null]
    /\ tx = [op |-> "none", id |-> "", step |-> 0, books |-> <<>>, files |-> <<>>,
             rejected |-> FALSE]
    /\ viewAt = [i \in 1..MaxViews |-> "idle"]
    /\ asked = [i \in 1..MaxViews |-> NoRequest]
    /\ viewLocals = [i \in 1..MaxViews |-> [chapter |-> NoRequest, arrayBuffer |-> NoRequest]]
    /\ viewButtons = [i \in 1..MaxViews |-> ButtonReady]

\* parsePDF up to the first stage: the input check, pdfjsLib.getDocument and
\* getMetadata; any of them failing makes parsePDF throw
LoadDocument ==
    /\ pc = "idle"
    /\ \/ IsBrokenDoc(pdf')
       \/ IsOutlineDoc(pdf')
       \/ IsExampleDoc(pdf')
       \/ IsTocDoc(pdf')
       \/ IsLinkDoc(pdf')
       \/ IsContentDoc(pdf')
       \/ IsLongDoc(pdf')
    /\ pc' = IF pdf'.load = "ok" THEN "outline" ELSE "failed"
    /\ UNCHANGED <<chapters, invoked, stageOut, result>>
    /\ UNCHANGED notPdf

\* chapters = await this.<stage>(...), inside parsePDF's try block: an
\* exception of the stage is caught, logged and thrown again
CallStage(name, returned, next) ==
    /\ chapters' = IF returned.threw THEN chapters ELSE returned
    /\ invoked' = Append(invoked, name)
    /\ stageOut' = Append(stageOut, returned)
    /\ pc' = IF returned.threw THEN "failed" ELSE next
    /\ UNCHANGED <<pdf, result>>
    /\ UNCHANGED notPdf

SkipStage(next) ==
    /\ pc' = next
    /\ UNCHANGED <<pdf, chapters, invoked, stageOut, result>>
    /\ UNCHANGED notPdf

\* let chapters = await this.extractChaptersFromOutline(pdf)
OutlineStage ==
    /\ pc = "outline"
    /\ CallStage("outline", ExtractChaptersFromOutline(pdf), "toc")

\* if (!chapters || chapters.length === 0) chapters = extractChaptersFromTOC
TocStage ==
    /\ pc = "toc"
    /\ IF NoChapters(chapters)
       THEN CallStage("toc", ExtractChaptersFromTOC(pdf), "content")
       ELSE SkipStage("content")

\* if (!chapters || chapters.length === 0) chapters = detectChaptersFromContent
ContentStage ==
    /\ pc = "content"
    /\ IF NoChapters(chapters)
       THEN CallStage("content", DetectChaptersFromContent(pdf), "fallback")
       ELSE SkipStage("fallback")

\* if (!chapters || chapters.length === 0) chapters = createPageBasedChapters
FallbackStage ==
    /\ pc = "fallback"
    /\ IF NoChapters(chapters)
       THEN CallStage("fallback", CreatePageBasedChapters(pdf.numPages), "return")
       ELSE SkipStage("return")

\* return { title, chapters, numPages, type: 'pdf' }
Return ==
    /\ pc = "return"
    /\ result' = chapters
    /\ pc' = "done"
    /\ UNCHANGED <<pdf, chapters, invoked, stageOut>>
    /\ UNCHANGED notPdf

Next ==
    \/ LoadDocument
    \/ OutlineStage
    \/ TocStage
    \/ ContentStage
    \/ FallbackStage
    \/ Return

Spec == Init /\ [][Next]_vars

-----------------------------------------------------------------------------
(* parsePDF over stages that may come to anything: the body of the outline *)
(* stage and of the TOC stage throws, gives null or gives any list; the    *)
(* content stage gives any list.                                           *)

MaxReturned == 2

ReturnedTitles == {"Chapter 1", "Notes"}

ChaptersOn(numPages) ==
    [title : ReturnedTitles, startPage : 1..numPages, endPage : {numPages},
     type : {"pdf-chapter"}]

ChapterLists(numPages) ==
    UNION {[1..k -> ChaptersOn(numPages)] : k \in 0..MaxReturned}

Outcomes(numPages) ==
    {Thrown, Null} \cup {Some(list) : list \in ChapterLists(numPages)}

OpenDocument ==
    /\ pc = "idle"
    /\ \/ IsBrokenDoc(pdf')
       \/ \E n \in 1..MaxPages : pdf' = Doc(n, NoOutline, [p \in 1..n |-> BlankPage])
    /\ pc' = IF pdf'.load = "ok" THEN "outline" ELSE "failed"
    /\ UNCHANGED <<chapters, invoked, stageOut, result>>
    /\ UNCHANGED notPdf

\* extractChaptersFromOutline: try { ... } catch (error) { return null }
AnyOutline ==
    /\ pc = "outline"
    /\ \E body \in Outcomes(pdf.numPages) :
          CallStage("outline", Catch(body, Null), "toc")

\* extractChaptersFromTOC: try { ... } catch (error) { return null }
AnyToc ==
    /\ pc = "toc"
    /\ IF NoChapters(chapters)
       THEN \E body \in Outcomes(pdf.numPages) :
               CallStage("toc", Catch(body, Null), "content")
       ELSE SkipStage("content")

\* detectChaptersFromContent: the list of the chapters found, empty or not
AnyContent ==
    /\ pc = "content"
    /\ IF NoChapters(chapters)
       THEN \E list \in ChapterLists(pdf.numPages) :
               CallStage("content", Some(list), "fallback")
       ELSE SkipStage("fallback")

AnyNext ==
    \/ OpenDocument
    \/ AnyOutline
    \/ AnyToc
    \/ AnyContent
    \/ FallbackStage
    \/ Return

\* a call of parsePDF goes on: every await of it is resumed
AnyResume == AnyOutline \/ AnyToc \/ AnyContent \/ FallbackStage \/ Return

AnySpec == Init /\ [][AnyNext]_vars /\ WF_vars(AnyResume)

-----------------------------------------------------------------------------
(* parseEpubStructure                                                      *)

\* findOpfPath and the reading of the package file: without container.xml,
\* rootfile or package file parseEpubStructure throws
OpenArchive ==
    /\ epc = "idle"
    /\ IsBrokenArchive(zip') \/ IsSpineArchive(zip') \/ IsTitleArchive(zip')
    /\ epc' = IF zip'.container = "ok" THEN "spine" ELSE "failed"
    /\ spineIndex' = 1
    /\ bookChapters' = <<>>
    /\ UNCHANGED parsed
    /\ UNCHANGED notEpub

\* for (const itemref of itemrefs) { ... }: one itemref
SpineItem ==
    /\ epc = "spine"
    /\ spineIndex <= Len(zip.spine)
    /\ bookChapters' = WithSpineItem(zip, bookChapters, zip.spine[spineIndex])
    /\ spineIndex' = spineIndex + 1
    /\ UNCHANGED <<epc, zip, parsed>>
    /\ UNCHANGED notEpub

\* return { title, chapters }
ReturnBook ==
    /\ epc = "spine"
    /\ spineIndex > Len(zip.spine)
    /\ parsed' = [title |-> BookTitle(zip), chapters |-> bookChapters]
    /\ epc' = "done"
    /\ UNCHANGED <<zip, spineIndex, bookChapters>>
    /\ UNCHANGED notEpub

EpubNext ==
    \/ OpenArchive
    \/ SpineItem
    \/ ReturnBook

EpubSpec == Init /\ [][EpubNext]_vars

-----------------------------------------------------------------------------
(* viewChapter                                                             *)

ButtonLoading == [disabled |-> TRUE, textContent |-> "Loading..."]

NoContentError ==
    "Error: No content could be extracted from this chapter. Check console for debug info."

\* textContent of an EPUB chapter
EpubTextOf(r) ==
    IF r.archive # "ok" THEN "Error processing EPUB: " \o r.archive
    ELSE IF ~r.entry THEN "Error: Chapter file not found in EPUB archive"
    ELSE ChapterTextOf(r.document, r.layout)

\* textContent, by the book's type
TextOfRequest(r) ==
    IF r.type = "epub" THEN EpubTextOf(r)
    ELSE IF r.type = "pdf" THEN ExtractTextFromPDFRange(r.pdf, r.startPage, r.endPage)
    ELSE "Error: Unknown book type"

\* the alert viewChapter ends with instead of showing a chapter, "" if none
AlertOf(r) ==
    IF ~r.book THEN "Book not found"
    ELSE IF ~r.chapter THEN "Chapter not found"
    ELSE IF r.file = "missing" THEN "File not found"
    ELSE IF r.file = "empty" THEN "Error loading chapter content"
    ELSE ""

\* currentChapterContent = textContent, or the error text when it is empty
ContentOf(textContent) ==
    IF Len(textContent) > 0 THEN textContent ELSE NoContentError

\* viewChapter up to its first await: the button clicked shows Loading...
StartView ==
    /\ vpc = "idle"
    /\ IsStoreRequest(request') \/ IsMarkupRequest(request') \/ IsRangeRequest(request')
    /\ button' = ButtonLoading
    /\ vpc' = "loading"
    /\ UNCHANGED <<currentChapterContent, shown, alerted, extracted>>
    /\ UNCHANGED notView

\* viewChapter from the book's lookup to its finally block
FinishView ==
    /\ vpc = "loading"
    /\ alerted' = AlertOf(request)
    /\ currentChapterContent' =
          IF AlertOf(request) = "" THEN ContentOf(TextOfRequest(request))
          ELSE currentChapterContent
    /\ shown' =
          IF AlertOf(request) = ""
          THEN [section |-> "content", title |-> request.title,
                content |-> ContentOf(TextOfRequest(request))]
          ELSE shown
    /\ button' = ButtonReady
    /\ vpc' = "done"
    /\ UNCHANGED <<request, extracted>>
    /\ UNCHANGED notView

\* the text of the same chapter as downloadFullBook takes it: for a PDF
\* extractTextFromPDFRange(arrayBuffer, chapter.startPage, chapter.endPage),
\* else extractTextFromHtml(rootElement) and what is made of it
ExtractText ==
    /\ vpc # "idle"
    /\ ~extracted.done
    /\ extracted' =
          IF request.type = "pdf"
          THEN [done |-> TRUE,
                text |-> ExtractTextFromPDFRange(request.pdf, request.startPage,
                                                 request.endPage),
                exported |-> ExtractTextFromPDFRange(request.pdf, request.startPage,
                                                     request.endPage)]
          ELSE [done |-> TRUE,
                text |-> ExtractTextFromHtml(RootElement(request.document)),
                exported |-> ExportTextOf(request.document, request.layout)]
    /\ UNCHANGED <<vpc, request, button, currentChapterContent, shown, alerted>>
    /\ UNCHANGED notView

ViewNext ==
    \/ StartView
    \/ FinishView
    \/ ExtractText

ViewSpec == Init /\ [][ViewNext]_vars

-----------------------------------------------------------------------------
(* viewChapter calls that run at the same time                             *)

\* the chapters the calls are for, and the calls that end with an alert
ViewRequests ==
    {SomeRequest,
     [SomeRequest EXCEPT !.title = "Chapter 2",
                         !.document = Html(<<>>, El("body", <<El("p", <<Text("Two.")>>)>>))],
     [SomeRequest EXCEPT !.title = "Notes", !.entry = FALSE],
     NoRequest,
     [SomeRequest EXCEPT !.chapter = FALSE],
     [SomeRequest EXCEPT !.file = "missing"],
     [SomeRequest EXCEPT !.file = "empty"]}

\* one place for the locals of every call
SharedLocals(i) == 1

\* `const chapter`, `const arrayBuffer`, `let textContent` of viewChapter:
\* each call has locals of its own
LocalsOfView(i) == i

\* viewChapter up to its first await: the button clicked shows Loading...
BeginView(i) ==
    /\ viewAt[i] = "idle"
    /\ \E r \in ViewRequests : asked' = [asked EXCEPT ![i] = r]
    /\ viewButtons' = [viewButtons EXCEPT ![i] = ButtonLoading]
    /\ viewAt' = [viewAt EXCEPT ![i] = "book"]
    /\ UNCHANGED <<viewLocals, currentChapterContent, shown, alerted>>
    /\ UNCHANGED notViews

\* after `await epubDB.getBook(bookId)`: without the book or the chapter
\* the call alerts and ends, else it asks for the file
LookupView(i) ==
    /\ viewAt[i] = "book"
    /\ IF asked[i].book /\ asked[i].chapter
       THEN /\ viewLocals' = [viewLocals EXCEPT ![LocalsOfView(i)].chapter = asked[i]]
            /\ viewAt' = [viewAt EXCEPT ![i] = "file"]
            /\ UNCHANGED <<viewButtons, alerted>>
       ELSE /\ alerted' = AlertOf(asked[i])
            /\ viewButtons' = [viewButtons EXCEPT ![i] = ButtonReady]
            /\ viewAt' = [viewAt EXCEPT ![i] = "done"]
            /\ UNCHANGED viewLocals
    /\ UNCHANGED <<asked, currentChapterContent, shown>>
    /\ UNCHANGED notViews

\* after `await epubDB.getEpubFile(bookId)` and `await fileBlob.arrayBuffer()`:
\* without the file or its bytes the call alerts and ends, else it has the
\* bytes to read the chapter from
LoadView(i) ==
    /\ viewAt[i] = "file"
    /\ IF asked[i].file = "found"
       THEN /\ viewLocals' = [viewLocals EXCEPT ![LocalsOfView(i)].arrayBuffer = asked[i]]
            /\ viewAt' = [viewAt EXCEPT ![i] = "text"]
            /\ UNCHANGED <<viewButtons, alerted>>
       ELSE /\ alerted' = AlertOf(asked[i])
            /\ viewButtons' = [viewButtons EXCEPT ![i] = ButtonReady]
            /\ viewAt' = [viewAt EXCEPT ![i] = "done"]
            /\ UNCHANGED viewLocals
    /\ UNCHANGED <<asked, currentChapterContent, shown>>
    /\ UNCHANGED notViews

\* the chapter of the call as it reads it from the bytes it has
ChapterOfView(own) ==
    [own.chapter EXCEPT !.archive = own.arrayBuffer.archive,
                           !.entry = own.arrayBuffer.entry,
                           !.document = own.arrayBuffer.document,
                           !.layout = own.arrayBuffer.layout,
                           !.pdf = own.arrayBuffer.pdf]

\* after the last await, without another one up to the finally block: the
\* text is taken, currentChapterContent set, the content section shown with
\* the chapter's title and the text
ShowView(i) ==
    /\ viewAt[i] = "text"
    /\ currentChapterContent' =
          ContentOf(TextOfRequest(ChapterOfView(viewLocals[LocalsOfView(i)])))
    /\ shown' = [section |-> "content",
                 title |-> viewLocals[LocalsOfView(i)].chapter.title,
                 content |-> currentChapterContent']
    /\ viewButtons' = [viewButtons EXCEPT ![i] = ButtonReady]
    /\ viewAt' = [viewAt EXCEPT ![i] = "done"]
    /\ UNCHANGED <<asked, viewLocals, alerted>>
    /\ UNCHANGED notViews

ViewsNext ==
    \E i \in 1..MaxViews :
        \/ BeginView(i)
        \/ LookupView(i)
        \/ LoadView(i)
        \/ ShowView(i)

ViewsSpec == Init /\ [][ViewsNext]_vars

-----------------------------------------------------------------------------
(* downloadFullBook                                                        *)

\* c.repeat(n)
Repeat(c, n) ==
    LET f[k \in 0..n] == IF k = 0 THEN "" ELSE f[k - 1] \o c
    IN f[n]

\* `\n\n--- ${chapter.title} ---\n\n`
SectionHeader(title) == "\n\n--- " \o title \o " ---\n\n"

NotFoundText == "[Error: Chapter file not found in EPUB archive]"

LoadErrorText == "[Error loading chapter content]"

\* the title, underlined, and for a PDF the number of its pages
BookHead(book) ==
    book.title \o "\n" \o Repeat("=", Len(book.title)) \o "\n\n"
    \o (IF book.type = "pdf"
        THEN "PDF Document (" \o NumStr(book.numPages) \o " pages)\n\n" ELSE "")

\* .replace(/[^a-z0-9]/gi, '_')
SafeName(s) ==
    MapChars(s, LAMBDA t, i : IF Char(t, i) \in Digits \cup LowerLetters \cup UpperLetters
                               THEN Char(t, i) ELSE "_")

\* what the try block of one turn of the loop comes to: an exception, or
\* the value of textContent (undefined for a book that is no EPUB and no PDF)
ChapterOutcome(book, chapter) ==
    IF book.type = "epub"
    THEN IF book.archive # "ok" \/ chapter.entry = "unreadable"
         THEN [threw |-> TRUE, text |-> ""]
         ELSE IF chapter.entry = "missing" THEN [threw |-> FALSE, text |-> NotFoundText]
         ELSE [threw |-> FALSE, text |-> ExportTextOf(chapter.document, chapter.layout)]
    ELSE IF book.type = "pdf"
    THEN [threw |-> FALSE,
          text |-> ExtractTextFromPDFRange(book.pdf, chapter.startPage, chapter.endPage)]
    ELSE [threw |-> FALSE, text |-> "undefined"]

\* fullBookText after the section of a chapter: its header, then its text
\* and the spacing before the next chapter, or the text of the catch clause
WithSection(text, title, outcome, isLast) ==
    IF outcome.threw THEN text \o SectionHeader(title) \o LoadErrorText
    ELSE text \o SectionHeader(title) \o outcome.text \o (IF isLast THEN "" ELSE "\n\n")

\* a turn of the loop that adds nothing for a chapter whose text fails
WithReadableChapter(text, book, i) ==
    IF ChapterOutcome(book, book.chapters[i]).threw THEN text
    ELSE WithSection(text, book.chapters[i].title,
                     ChapterOutcome(book, book.chapters[i]), i = Len(book.chapters))

\* fullBookText after turn i of `for (let i = 0; i < chapters.length; i++)`
WithChapter(text, book, i) ==
    WithSection(text, book.chapters[i].title, ChapterOutcome(book, book.chapters[i]),
                i = Len(book.chapters))

\* the book as the loop reads it: the chapters are those of `book`, the
\* bytes those of `file`, where zip.file(chapter.href) finds the content
\* document of that name, the books naming theirs alike, or none
ReadFrom(book, file) ==
    [book EXCEPT
        !.archive = file.archive,
        !.pdf = file.pdf,
        !.chapters =
            [i \in 1..Len(book.chapters) |->
                IF i <= Len(file.chapters)
                THEN [book.chapters[i] EXCEPT !.entry = file.chapters[i].entry,
                                              !.document = file.chapters[i].document,
                                              !.layout = file.chapters[i].layout]
                ELSE [book.chapters[i] EXCEPT !.entry = "missing"]]]

BlankChapterDocument == Html(<<"X">>, El("body", <<Text(" \n")>>))

EpubChapters ==
    {[SomeChapter EXCEPT !.title = t, !.document = d] :
        t \in {"Chapter 1", "Notes"}, d \in {Html(<<>>, ExampleBody), BlankChapterDocument}}
    \cup {[SomeChapter EXCEPT !.title = t, !.entry = e] :
            t \in {"Chapter 1", "Notes"}, e \in {"missing", "unreadable"}}

IsEpubBook(b) ==
    \E archive \in {"ok", "corrupt"}, n \in 0..MaxChapters :
        \E chs \in [1..n -> EpubChapters] :
            b = [SomeBook EXCEPT !.archive = archive, !.chapters = chs]

PdfChapters(numPages) ==
    {[SomeChapter EXCEPT !.title = "Part", !.startPage = s, !.endPage = e] :
        s \in 1..numPages, e \in 1..numPages} 

IsPdfBook(b) ==
    \E n \in 1..MaxRangePages, k \in 0..MaxChapters :
        \E pages \in [1..n -> RangePages], chs \in [1..k -> PdfChapters(n)] :
            /\ \A i \in 1..k : chs[i].startPage <= chs[i].endPage
            /\ b = [SomeBook EXCEPT !.type = "pdf", !.pdf = Doc(n, NoOutline, pages),
                                    !.numPages = n, !.chapters = chs]

IsOddBook(b) ==
    \/ b = NoCurrentBook
    \/ \E file \in {"missing", "empty"} : b = [SomeBook EXCEPT !.file = file]
    \/ b = [SomeBook EXCEPT !.type = "other"]

\* downloadFullBook up to its first await: without a current book it
\* alerts and returns, else it shows the loading indicator
BeginExport ==
    /\ exportAlert' = IF currentBook'.selected THEN "" ELSE "No book selected"
    /\ downloadBtn' = IF currentBook'.selected THEN ExportBusy ELSE downloadBtn
    /\ xpc' = IF currentBook'.selected THEN "loading" ELSE "done"
    /\ arrayBuffer' = IF currentBook'.selected THEN currentBook' ELSE arrayBuffer
    /\ UNCHANGED <<chapterIndex, fullBookText, saved>>
    /\ UNCHANGED notExport

\* downloadFullBook is called with any book as the current one
StartExport ==
    /\ xpc = "idle"
    /\ IsEpubBook(currentBook') \/ IsPdfBook(currentBook') \/ IsOddBook(currentBook')
    /\ BeginExport

\* the file is fetched: without it, or without bytes in it, downloadFullBook
\* alerts and hides the indicator; else the text starts with the book's head
LoadFile ==
    /\ xpc = "loading"
    /\ exportAlert' = IF arrayBuffer.file = "missing" THEN "File not found"
                      ELSE IF arrayBuffer.file = "empty" THEN "Error downloading full book"
                      ELSE exportAlert
    /\ downloadBtn' = IF arrayBuffer.file = "found" THEN downloadBtn ELSE ExportReady
    /\ xpc' = IF arrayBuffer.file = "found" THEN "chapters" ELSE "done"
    /\ fullBookText' = IF arrayBuffer.file = "found" THEN BookHead(currentBook)
                       ELSE fullBookText
    /\ chapterIndex' = 1
    /\ UNCHANGED <<currentBook, arrayBuffer, saved>>
    /\ UNCHANGED notExport

\* one turn of the loop over the chapters, up to its setTimeout
ExportChapter ==
    /\ xpc = "chapters"
    /\ chapterIndex <= Len(currentBook.chapters)
    /\ fullBookText' =
          WithChapter(fullBookText, ReadFrom(currentBook, arrayBuffer), chapterIndex)
    /\ chapterIndex' = chapterIndex + 1
    /\ UNCHANGED <<xpc, currentBook, arrayBuffer, saved, exportAlert, downloadBtn>>
    /\ UNCHANGED notExport

\* after the loop: the text is offered as a file and the indicator hidden
SaveBook ==
    /\ xpc = "chapters"
    /\ chapterIndex > Len(currentBook.chapters)
    /\ saved' = [done |-> TRUE,
                 fileName |-> SafeName(currentBook.title) \o "_complete.txt",
                 text |-> fullBookText]
    /\ downloadBtn' = ExportReady
    /\ xpc' = "done"
    /\ UNCHANGED <<currentBook, arrayBuffer, chapterIndex, fullBookText, exportAlert>>
    /\ UNCHANGED notExport

ExportNext ==
    \/ StartExport
    \/ LoadFile
    \/ ExportChapter
    \/ SaveBook

ExportSpec == Init /\ [][ExportNext]_vars

\* the books of the list that viewBook is asked for while a download runs
OtherBooks ==
    {[SomeBook EXCEPT !.title = "Other",
                      !.chapters = <<[SomeChapter EXCEPT !.title = "Preface"]>>],
     [SomeBook EXCEPT !.title = "Other",
                      !.chapters = <<[SomeChapter EXCEPT !.title = "Preface"],
                                     [SomeChapter EXCEPT !.title = "One",
                                                         !.document = BlankChapterDocument],
                                     [SomeChapter EXCEPT !.title = "Two"]>>]}

\* viewBook, after its await, for a book of the store: it becomes the
\* current book, also while downloadFullBook is suspended at an await
ViewBook ==
    /\ xpc \in {"loading", "chapters"}
    /\ currentBook' \in OtherBooks
    /\ UNCHANGED <<xpc, arrayBuffer, chapterIndex, fullBookText, saved, exportAlert,
                   downloadBtn>>
    /\ UNCHANGED notExport

SwitchNext ==
    \/ ExportNext
    \/ ViewBook

SwitchSpec == Init /\ [][SwitchNext]_vars

-----------------------------------------------------------------------------
(* handleUpload and EpubDB.addBook                                         *)

UploadBusy == [disabled |-> TRUE, textContent |-> "Processing..."]

ProcessingError == "Error processing file. Please try another file."

QuotaError == "Storage quota exceeded. Please delete some books or try a smaller file."

\* the files of the file input: none, or a name and its bytes
UploadFiles ==
    {NoFile}
    \cup [present : {TRUE}, name : {"book.epub", "Book.EPUB", "paper.pdf", "notes.txt"},
          content : {"empty", "bytes"}]

\* file.name.toLowerCase().endsWith('.epub')
IsEpubName(name) == EndsWith(ToLowerCase(name), ".epub")

\* file.name.toLowerCase().endsWith('.pdf')
IsPdfName(name) == EndsWith(ToLowerCase(name), ".pdf")

\* s.replace(p, ''): s without the first p in it
WithoutFirst(s, p) ==
    IF FindFrom(s, p, 1) = 0 THEN s
    ELSE SubSeq(s, 1, FindFrom(s, p, 1) - 1)
         \o SubSeq(s, FindFrom(s, p, 1) + Len(p), Len(s))

\* bookData, from what parseEpubStructure or parsePDF returned; the id is
\* the time of the upload, later than the ids in the store
BookData(file, store) ==
    IF IsEpubName(file.name)
    THEN [id |-> NumStr(Len(store) + 1),
          title |-> OrElse(parsed.title, WithoutFirst(file.name, ".epub")),
          fileName |-> file.name, chapters |-> parsed.chapters, type |-> "epub"]
    ELSE [id |-> NumStr(Len(store) + 1),
          title |-> "PDF Document",
          fileName |-> file.name, chapters |-> result.list, type |-> "pdf"]

\* a catch clause without the finally clause after it
FailWithoutFinally(outcome) ==
    /\ books' = books
    /\ epubFiles' = epubFiles
    /\ uploadAlert' = IF outcome = "quota" THEN QuotaError ELSE ProcessingError
    /\ upc' = "done"
    /\ UNCHANGED <<upload, booksList, uploadBtn>>

\* a store that takes the book whatever became of the upload
BooksAfterAny(store, outcome, entry) == Append(store, entry)

\* an object store after handleUpload: addBook is reached when nothing threw
\* before it, and its transaction adds to both stores or to none
BooksAfter(store, outcome, entry) ==
    IF outcome = "ok" THEN Append(store, entry) ELSE store

\* the catch clause of handleUpload
UploadAlertOf(outcome) == IF outcome = "quota" THEN QuotaError ELSE ProcessingError

\* the catch and finally clauses of handleUpload after something threw
FailWith(outcome) ==
    /\ books' = BooksAfter(books, outcome, BookData(upload, books))
    /\ epubFiles' = BooksAfter(epubFiles, outcome, NumStr(Len(books) + 1))
    /\ uploadAlert' = UploadAlertOf(outcome)
    /\ uploadBtn' = UploadReady
    /\ upc' = "done"
    /\ UNCHANGED <<upload, booksList>>

\* handleUpload up to its first await: the checks of the file
ChooseFile ==
    /\ upc = "idle"
    /\ upload' \in UploadFiles
    /\ uploadAlert' = IF ~upload'.present THEN "Please select a file"
                      ELSE IF ~IsEpubName(upload'.name) /\ ~IsPdfName(upload'.name)
                      THEN "Please select a valid EPUB or PDF file"
                      ELSE ""
    /\ uploadBtn' = IF uploadAlert' = "" THEN UploadBusy ELSE uploadBtn
    /\ upc' = IF uploadAlert' = "" THEN "reading" ELSE "done"
    /\ UNCHANGED <<books, epubFiles, booksList>>
    /\ UNCHANGED notUpload

\* file.arrayBuffer(), then JSZip.loadAsync for an EPUB, which throws for
\* bytes that are no archive, or the check for an empty PDF
ReadFile ==
    /\ upc = "reading"
    /\ \E opens \in IF upload.content = "empty" THEN {FALSE}
                    ELSE IF IsEpubName(upload.name) THEN BOOLEAN ELSE {TRUE} :
            IF opens
            THEN /\ upc' = "parsing"
                 /\ UNCHANGED <<upload, books, epubFiles, booksList, uploadAlert, uploadBtn>>
            ELSE FailWith("failed")
    /\ UNCHANGED notUpload

\* await parseEpubStructure(zip): its steps
ParseEpub ==
    /\ upc = "parsing"
    /\ IsEpubName(upload.name)
    /\ EpubNext

\* await PDFParser.parsePDF(arrayBuffer): its steps
ParsePdf ==
    /\ upc = "parsing"
    /\ ~IsEpubName(upload.name)
    /\ Next

\* parseEpubStructure or parsePDF threw
FailUpload ==
    /\ upc = "parsing"
    /\ IF IsEpubName(upload.name) THEN epc = "failed" ELSE pc = "failed"
    /\ FailWith("failed")
    /\ UNCHANGED notUpload

\* await epubDB.addBook(bookData, fileBlob), which may throw for the quota,
\* then loadBooks, and the finally clause
StoreBook ==
    /\ upc = "parsing"
    /\ IF IsEpubName(upload.name) THEN epc = "done" ELSE pc = "done"
    /\ \E outcome \in {"ok", "quota"} :
        IF outcome = "ok"
        THEN /\ books' = BooksAfter(books, outcome, BookData(upload, books))
             /\ epubFiles' = BooksAfter(epubFiles, outcome, NumStr(Len(books) + 1))
             /\ booksList' = books'
             /\ uploadBtn' = UploadReady
             /\ upc' = "done"
             /\ UNCHANGED <<upload, uploadAlert>>
        ELSE FailWith(outcome)
    /\ UNCHANGED notUpload

UploadNext ==
    \/ ChooseFile
    \/ ReadFile
    \/ ParseEpub
    \/ ParsePdf
    \/ FailUpload
    \/ StoreBook

UploadSpec == Init /\ [][UploadNext]_vars

-----------------------------------------------------------------------------
(* The page offset of extractChaptersFromTOC, step by step                 *)

\* mainChapters of the TOC page of a document
MainEntriesOf(doc, tocPageNum) ==
    SelectSeq(TocEntries(GroupLines(doc.pages[tocPageNum].items)), IsMainEntry)

\* the offset is computed: there is a TOC page, its annotations are read and
\* none is a link with a destination, and it has enough main chapters
ReachesOffset(doc) ==
    /\ FindTocPage(doc) # 0
    /\ doc.pages[FindTocPage(doc)].annotations.status # "throws"
    /\ Len(SelectSeq(doc.pages[FindTocPage(doc)].annotations.list, IsLinkWithDest)) = 0
    /\ Len(MainEntriesOf(doc, FindTocPage(doc))) >= MinMainChapters

\* a loop that goes on where the loop of the call before it ended
ResumedIndex(previous) == previous

\* for (let i = 0; ...): the loop over the first main chapters starts anew
FirstIndex(previous) == 1

\* extractChaptersFromTOC up to the loop over the first main chapters: the
\* first call opens a document, a later call is given the same document
StartOffsets ==
    /\ opc \in {"idle", "computed"}
    /\ Len(offsets) < MaxRuns
    /\ IF opc = "idle" THEN IsTocDoc(tocDoc') \/ IsLinkDoc(tocDoc') ELSE tocDoc' = tocDoc
    /\ IF ReachesOffset(tocDoc')
       THEN /\ mainEntries' = MainEntriesOf(tocDoc', FindTocPage(tocDoc'))
            /\ sampleIndex' = FirstIndex(sampleIndex)
            /\ offsetSamples' = <<>>
            /\ pageOffset' = 0
            /\ opc' = "sampling"
       ELSE /\ opc' = "done"
            /\ UNCHANGED <<mainEntries, sampleIndex, offsetSamples, pageOffset>>
    /\ UNCHANGED <<offsets, tocChapters>>
    /\ UNCHANGED notOffset

\* one turn of the loop: the pages around the printed page number are read
\* for the title of the entry, and the first that has it gives a sample
SampleEntry ==
    /\ opc = "sampling"
    /\ sampleIndex <= Min(OffsetSamples, Len(mainEntries))
    /\ offsetSamples' =
          IF FindTitlePage(tocDoc, mainEntries[sampleIndex], FindTocPage(tocDoc)) = 0
          THEN offsetSamples
          ELSE Append(offsetSamples,
                      FindTitlePage(tocDoc, mainEntries[sampleIndex], FindTocPage(tocDoc))
                      - mainEntries[sampleIndex].pageNum)
    /\ sampleIndex' = sampleIndex + 1
    /\ UNCHANGED <<opc, tocDoc, mainEntries, pageOffset, offsets, tocChapters>>
    /\ UNCHANGED notOffset

\* after the loop: the rounded mean of the samples, and the chapters with it
ComputeOffset ==
    /\ opc = "sampling"
    /\ sampleIndex > Min(OffsetSamples, Len(mainEntries))
    /\ pageOffset' = PageOffset(offsetSamples)
    /\ offsets' = Append(offsets, pageOffset')
    /\ tocChapters' = ChaptersFromStarts(ShiftBy(mainEntries, pageOffset'), tocDoc.numPages)
    /\ opc' = "computed"
    /\ UNCHANGED <<tocDoc, mainEntries, sampleIndex, offsetSamples>>
    /\ UNCHANGED notOffset

OffsetNext ==
    \/ StartOffsets
    \/ SampleEntry
    \/ ComputeOffset

OffsetSpec == Init /\ [][OffsetNext]_vars

-----------------------------------------------------------------------------
(* Calls of parsePDF and parseEpubStructure that run at the same time:     *)
(* each call goes on from await to await, in any order with the others.    *)

\* what a call of parsePDF or parseEpubStructure is given
PdfInputs ==
    {BrokenDoc("corrupt"),
     Doc(2, ExampleOutline(0, 0, 1), <<BlankPage, BlankPage>>),
     Doc(3, NoOutline,
         <<TocTextPage(<<[title |-> "Intro", printed |-> 1],
                         [title |-> "Intro", printed |-> 2],
                         [title |-> "Intro", printed |-> 3]>>),
           TextPage(<<"Intro", "Some text">>), BlankPage>>),
     Doc(2, NoOutline, <<TextPage(<<"Chapter 1", "Basics">>), TextPage(<<"Chapter 2">>)>>),
     Doc(2, NoOutline, <<BlankPage, BlankPage>>)}

EpubInputs ==
    {BrokenArchive("no container"),
     Archive("content.opf", <<"A Book">>,
             <<[id |-> "id1", href |-> "ch1.xhtml", mediaType |-> XhtmlType],
               [id |-> "id2", href |-> "text/notes.xhtml", mediaType |-> XhtmlType]>>,
             <<"id1", "id2">>, PlainFiles("content.opf")),
     Archive("OEBPS/content.opf", <<>>,
             <<[id |-> "id1", href |-> "part2.htm", mediaType |-> XhtmlType]>>,
             <<"id1">>,
             [path \in {FullPath("OEBPS/content.opf", "part2.htm")} |-> EmptyContent])}

CallInputs ==
    {[kind |-> "pdf", pdf |-> d, zip |-> NoZip] : d \in PdfInputs}
    \cup {[kind |-> "epub", pdf |-> NoPdf, zip |-> z] : z \in EpubInputs}

\* one place for the locals of every call
SharedSlot(i) == 1

\* `let chapters` of parsePDF, `const chapters = []` and the loop of
\* parseEpubStructure: each call has locals of its own
SlotOf(i) == i

\* the chapters after a stage that is called when there are none yet
ThenStage(list, stage) ==
    IF list.threw THEN Thrown ELSE IF NoChapters(list) THEN stage ELSE list

\* the chapter list of a call of parsePDF that runs alone
ParsePDFAlone(doc) ==
    IF doc.load # "ok" THEN Thrown
    ELSE ThenStage(ThenStage(ThenStage(ExtractChaptersFromOutline(doc),
                                       ExtractChaptersFromTOC(doc)),
                             DetectChaptersFromContent(doc)),
                   CreatePageBasedChapters(doc.numPages))

\* the chapter list of a call of parseEpubStructure that runs alone
ParseEpubAlone(archive) ==
    LET f[k \in 0..Len(archive.spine)] ==
            IF k = 0 THEN <<>> ELSE WithSpineItem(archive, f[k - 1], archive.spine[k])
    IN IF archive.container # "ok" THEN Thrown ELSE Some(f[Len(archive.spine)])

DiscoverAlone(input) ==
    IF input.kind = "pdf" THEN ParsePDFAlone(input.pdf) ELSE ParseEpubAlone(input.zip)

\* a call starts: parsePDF opens the document, parseEpubStructure reads the
\* package file and sets out on the spine with an empty list
BeginCall(i) ==
    /\ at[i] = "idle"
    /\ \E input \in CallInputs :
        /\ given' = [given EXCEPT ![i] = input]
        /\ IF input.kind = "pdf"
           THEN /\ at' = [at EXCEPT ![i] = IF input.pdf.load = "ok" THEN "outline"
                                           ELSE "failed"]
                /\ resolved' = [resolved EXCEPT ![i] = IF input.pdf.load = "ok" THEN @
                                                       ELSE Thrown]
                /\ UNCHANGED locals
           ELSE /\ at' = [at EXCEPT ![i] = IF input.zip.container = "ok" THEN "spine"
                                           ELSE "failed"]
                /\ resolved' = [resolved EXCEPT ![i] = IF input.zip.container = "ok" THEN @
                                                       ELSE Thrown]
                /\ locals' = IF input.zip.container = "ok"
                             THEN [locals EXCEPT ![SlotOf(i)].bookChapters = <<>>,
                                                 ![SlotOf(i)].spineIndex = 1]
                             ELSE locals
    /\ UNCHANGED notCalls

\* chapters = await this.<stage>(...) of call i, or the stage passed over
\* because there are chapters
StageOfCall(i, from, stage, next) ==
    /\ at[i] = from
    /\ IF from = "outline" \/ NoChapters(locals[SlotOf(i)].chapters)
       THEN /\ locals' = IF stage.threw THEN locals
                         ELSE [locals EXCEPT ![SlotOf(i)].chapters = stage]
            /\ at' = [at EXCEPT ![i] = IF stage.threw THEN "failed" ELSE next]
            /\ resolved' = [resolved EXCEPT ![i] = IF stage.threw THEN Thrown ELSE @]
       ELSE /\ at' = [at EXCEPT ![i] = next]
            /\ UNCHANGED <<locals, resolved>>
    /\ UNCHANGED given
    /\ UNCHANGED notCalls

OutlineOfCall ==
    \E i \in 1..MaxCalls :
        StageOfCall(i, "outline", ExtractChaptersFromOutline(given[i].pdf), "toc")

TocOfCall ==
    \E i \in 1..MaxCalls :
        StageOfCall(i, "toc", ExtractChaptersFromTOC(given[i].pdf), "content")

ContentOfCall ==
    \E i \in 1..MaxCalls :
        StageOfCall(i, "content", DetectChaptersFromContent(given[i].pdf), "fallback")

FallbackOfCall ==
    \E i \in 1..MaxCalls :
        StageOfCall(i, "fallback", CreatePageBasedChapters(given[i].pdf.numPages), "return")

\* return { title, chapters, numPages, type: 'pdf' } of call i
ReturnOfCall ==
    \E i \in 1..MaxCalls :
        /\ at[i] = "return"
        /\ resolved' = [resolved EXCEPT ![i] = locals[SlotOf(i)].chapters]
        /\ at' = [at EXCEPT ![i] = "done"]
        /\ UNCHANGED <<given, locals>>
        /\ UNCHANGED notCalls

\* one itemref of the spine of call i
SpineOfCall ==
    \E i \in 1..MaxCalls :
        /\ at[i] = "spine"
        /\ locals[SlotOf(i)].spineIndex <= Len(given[i].zip.spine)
        /\ locals' = [locals EXCEPT
                        ![SlotOf(i)].bookChapters =
                            WithSpineItem(given[i].zip, @,
                                          given[i].zip.spine[locals[SlotOf(i)].spineIndex]),
                        ![SlotOf(i)].spineIndex = @ + 1]
        /\ UNCHANGED <<at, given, resolved>>
        /\ UNCHANGED notCalls

\* return { title, chapters } of call i
ReturnBookOfCall ==
    \E i \in 1..MaxCalls :
        /\ at[i] = "spine"
        /\ locals[SlotOf(i)].spineIndex > Len(given[i].zip.spine)
        /\ resolved' = [resolved EXCEPT ![i] = Some(locals[SlotOf(i)].bookChapters)]
        /\ at' = [at EXCEPT ![i] = "done"]
        /\ UNCHANGED <<given, locals>>
        /\ UNCHANGED notCalls

CallsNext ==
    \/ \E i \in 1..MaxCalls : BeginCall(i)
    \/ OutlineOfCall
    \/ TocOfCall
    \/ ContentOfCall
    \/ FallbackOfCall
    \/ ReturnOfCall
    \/ SpineOfCall
    \/ ReturnBookOfCall

CallsSpec == Init /\ [][CallsNext]_vars

-----------------------------------------------------------------------------
(* EpubDB.addBook and EpubDB.deleteBook: one readwrite transaction over    *)
(* both object stores, of which the database runs one at a time.  `books`  *)
(* and `epubFiles` are what is committed, the transaction works on copies. *)

BookIds == {NumStr(i) : i \in 1..MaxIds}

\* no transaction is open; `rejected` tells whether the promise of the last
\* call was rejected, and `op`, `id`, `step` of an aborted one where it failed
NoTransaction ==
    [op |-> "none", id |-> "", step |-> 0, books |-> <<>>, files |-> <<>>,
     rejected |-> FALSE]

IdsOf(store) == {store[i].id : i \in 1..Len(store)}

\* objectStore.delete(id)
Without(list, id) == SelectSeq(list, LAMBDA x : x # id)

WithoutBook(store, id) == SelectSeq(store, LAMBDA b : b.id # id)

\* a transaction whose writes stay when it is aborted
KeptOnAbort(committed, working) == working

\* transaction.abort(), and the abort of a transaction with a failed
\* request: the stores are what was committed before the transaction
AfterAbort(committed, working) == committed

\* this.db.transaction([BOOKS_STORE, EPUB_STORE], 'readwrite') of addBook
\* or of deleteBook, for any id
BeginTransaction ==
    /\ tx.op = "none"
    /\ \E op \in {"add", "delete"}, id \in BookIds :
        tx' = [op |-> op, id |-> id, step |-> 1, books |-> books, files |-> epubFiles,
               rejected |-> FALSE]
    /\ UNCHANGED <<books, epubFiles>>
    /\ UNCHANGED notStore

\* the catch clause, or the failure of the commit: nothing of the
\* transaction is kept
AbortTransaction ==
    /\ books' = AfterAbort(books, tx.books)
    /\ epubFiles' = AfterAbort(epubFiles, tx.files)
    /\ tx' = [NoTransaction EXCEPT !.id = tx.id, !.step = tx.step, !.rejected = tx.step < 3]

\* the request on BOOKS_STORE: add fails for an id the store has, and any
\* request may fail
BooksRequest ==
    /\ tx.op # "none"
    /\ tx.step = 1
    /\ \E succeeds \in IF tx.op = "add" /\ tx.id \in IdsOf(tx.books)
                       THEN {FALSE} ELSE BOOLEAN :
        IF succeeds
        THEN /\ tx' = [tx EXCEPT
                         !.books = IF tx.op = "add"
                                   THEN Append(@, [StoredBook EXCEPT !.id = tx.id])
                                   ELSE WithoutBook(@, tx.id),
                         !.step = 2]
             /\ UNCHANGED <<books, epubFiles>>
        ELSE AbortTransaction
    /\ UNCHANGED notStore

\* the request on EPUB_STORE
FilesRequest ==
    /\ tx.op # "none"
    /\ tx.step = 2
    /\ \E succeeds \in IF tx.op = "add" /\ tx.id \in {tx.files[i] : i \in 1..Len(tx.files)}
                       THEN {FALSE} ELSE BOOLEAN :
        IF succeeds
        THEN /\ tx' = [tx EXCEPT
                         !.files = IF tx.op = "add" THEN Append(@, tx.id)
                                   ELSE Without(@, tx.id),
                         !.step = 3]
             /\ UNCHANGED <<books, epubFiles>>
        ELSE AbortTransaction
    /\ UNCHANGED notStore

\* the transaction has no request left: it commits, or its commit fails
CommitTransaction ==
    /\ tx.op # "none"
    /\ tx.step = 3
    /\ \E succeeds \in BOOLEAN :
        IF succeeds
        THEN /\ books' = tx.books
             /\ epubFiles' = tx.files
             /\ tx' = NoTransaction
        ELSE AbortTransaction
    /\ UNCHANGED notStore

StoreNext ==
    \/ BeginTransaction
    \/ BooksRequest
    \/ FilesRequest
    \/ CommitTransaction

StoreSpec == Init /\ [][StoreNext]_vars

-----------------------------------------------------------------------------
(* handleUpload and downloadFullBook with every await of theirs resumed:   *)
(* the parsers return anything or throw, the books are a few of every kind *)

\* await parseEpubStructure(zip) is resumed: the call has thrown, or
\* returned a title and chapters
ParseAnyEpub ==
    /\ upc = "parsing"
    /\ IsEpubName(upload.name)
    /\ epc = "idle"
    /\ \E threw \in BOOLEAN, title \in {"", "A Book"}, n \in 0..MaxReturned :
        /\ epc' = IF threw THEN "failed" ELSE "done"
        /\ parsed' = IF threw THEN parsed
                      ELSE [title |-> title,
                            chapters |-> [i \in 1..n |-> [title |-> GenericTitle(i - 1)]]]
    /\ UNCHANGED <<zip, spineIndex, bookChapters>>
    /\ UNCHANGED notEpub

\* await PDFParser.parsePDF(arrayBuffer) is resumed: the call has thrown,
\* or returned chapters
ParseAnyPdf ==
    /\ upc = "parsing"
    /\ ~IsEpubName(upload.name)
    /\ pc = "idle"
    /\ \E threw \in BOOLEAN, n \in 1..MaxReturned :
        /\ pc' = IF threw THEN "failed" ELSE "done"
        /\ result' = IF threw THEN result ELSE CreatePageBasedChapters(n)
    /\ UNCHANGED <<pdf, chapters, invoked, stageOut>>
    /\ UNCHANGED notPdf

\* the current book when downloadFullBook is called: none, a book without
\* its file or with an empty one, a book of one chapter or of three
CurrentBooks ==
    OtherBooks
    \cup {NoCurrentBook, [SomeBook EXCEPT !.file = "missing"],
          [SomeBook EXCEPT !.file = "empty"], [SomeBook EXCEPT !.archive = "corrupt"]}

StartAnyExport ==
    /\ xpc = "idle"
    /\ currentBook' \in CurrentBooks
    /\ BeginExport

\* one turn of the loop over the chapters: its try block throws, or gives
\* any text
ExportAnyChapter ==
    /\ xpc = "chapters"
    /\ chapterIndex <= Len(currentBook.chapters)
    /\ \E outcome \in [threw : BOOLEAN, text : {"", NotFoundText, "Two."}] :
        fullBookText' = WithSection(fullBookText, currentBook.chapters[chapterIndex].title,
                                    outcome, chapterIndex = Len(currentBook.chapters))
    /\ chapterIndex' = chapterIndex + 1
    /\ UNCHANGED <<xpc, currentBook, arrayBuffer, saved, exportAlert, downloadBtn>>
    /\ UNCHANGED notExport

ButtonsNext ==
    \/ ChooseFile
    \/ ReadFile
    \/ ParseAnyEpub
    \/ ParseAnyPdf
    \/ FailUpload
    \/ StoreBook
    \/ StartAnyExport
    \/ LoadFile
    \/ ExportAnyChapter
    \/ SaveBook

\* the call of handleUpload goes on after each await of it
UploadResume == ReadFile \/ ParseAnyEpub \/ ParseAnyPdf \/ FailUpload \/ StoreBook

\* the call of downloadFullBook goes on after each await of it
ExportResume == LoadFile \/ ExportAnyChapter \/ SaveBook

ButtonsSpec ==
    Init /\ [][ButtonsNext]_vars /\ WF_vars(UploadResume) /\ WF_vars(ExportResume)

-----------------------------------------------------------------------------
(* Properties of PDFParser.parsePDF                                        *)

StageOrder == <<"outline", "toc", "content", "fallback">>

\* an answer that holds no chapter: null, or the empty list
HoldsNoChapter(c) == c.isNull \/ c.list = <<>>

\* C1: the stages run in the order outline, TOC, content, fallback; a stage
\* runs only when every stage before it gave null or an empty list, and the
\* list parsePDF returns is the non-empty list of the last stage that ran.
C1_StagesInOrder ==
    /\ Len(invoked) <= Len(StageOrder)
    /\ \A i \in 1..Len(invoked) : invoked[i] = StageOrder[i]
    /\ \A i \in 1..(Len(invoked) - 1) : HoldsNoChapter(stageOut[i])
    /\ pc = "done" => /\ Len(invoked) >= 1
                      /\ ~HoldsNoChapter(stageOut[Len(invoked)])
                      /\ result = stageOut[Len(invoked)]

\* parsePDF returned the list of the content stage, the third one to run
C1_Witness ==
    /\ pc = "done"
    /\ invoked = <<"outline", "toc", "content">>
    /\ Len(result.list) >= 1

Contiguous(list, numPages) ==
    /\ \A k \in 1..(Len(list) - 1) : list[k].endPage = list[k + 1].startPage - 1
    /\ Len(list) > 0 => list[Len(list)].endPage = numPages

\* C2: in the list any stage returns, every chapter ends on the page before
\* the next chapter starts, and the last chapter ends on the last page.
C2_Contiguous ==
    \A i \in 1..Len(stageOut) : Contiguous(stageOut[i].list, pdf.numPages)

\* the TOC stage returned three chapters or more
C2_Witness ==
    \E i \in 1..Len(stageOut) : invoked[i] = "toc" /\ Len(stageOut[i].list) >= 3

InRange(ch, numPages) == ch.startPage <= ch.endPage /\ ch.endPage <= numPages

\* C3: every chapter of a list a stage returns has
\* startPage <= endPage <= numPages.
C3_PagesInRange ==
    \A i \in 1..Len(stageOut) :
        \A k \in 1..Len(stageOut[i].list) : InRange(stageOut[i].list[k], pdf.numPages)

ChapterItems(nodes) == {i \in 1..Len(nodes) : MatchesChapterNumber(nodes[i].title)}

SectionItems(nodes) ==
    {i \in 1..Len(nodes) : IsSpecialSection(nodes[i].title) /\ Resolves(nodes[i])}

\* the outline is a tree with a `Chapter <n>` item, and each resolves
ChapterOutline(doc) ==
    /\ doc.outline.status = "list"
    /\ IsPreOrder(doc.outline.nodes)
    /\ ChapterItems(doc.outline.nodes) # {}
    /\ \A i \in ChapterItems(doc.outline.nodes) : Resolves(doc.outline.nodes[i])

\* C5 as stated: with such an outline only the outline stage runs and
\* parsePDF returns as many chapters as the outline has `Chapter <n>` items.
C5_ChapterCount ==
    (pc = "done" /\ ChapterOutline(pdf))
    => /\ invoked = <<"outline">>
       /\ Len(result.list) = Cardinality(ChapterItems(pdf.outline.nodes))

\* C5, amended: with such an outline only the outline stage runs and
\* parsePDF returns one chapter per `Chapter <n>` item and one per resolved
\* item titled with a canonical section name (Introduction, Conclusion, ...).
C5_ChapterAndSectionCount ==
    (pc = "done" /\ ChapterOutline(pdf))
    => /\ invoked = <<"outline">>
       /\ Len(result.list) = Cardinality(ChapterItems(pdf.outline.nodes))
                             + Cardinality(SectionItems(pdf.outline.nodes))

\* parsePDF returned for an outline with a chapter and a canonical section
C5_Witness ==
    /\ pc = "done"
    /\ ChapterOutline(pdf)
    /\ SectionItems(pdf.outline.nodes) # {}

IsExampleOutline(o) ==
    /\ o.status = "list"
    /\ Len(o.nodes) = 3
    /\ [i \in 1..3 |-> o.nodes[i].title] = <<"Chapter 1", "1.1 Setup", "Chapter 2">>
    /\ [i \in 1..3 |-> o.nodes[i].level] = <<0, 1, 0>>
    /\ \A i \in 1..3 : Resolves(o.nodes[i])

ExampleChapters(list, nodes, numPages) ==
    /\ Len(list) = 2
    /\ list[1].title = "Chapter 1" /\ list[1].startPage = nodes[1].pageIndex + 1
    /\ list[2].title = "Chapter 2" /\ list[2].startPage = nodes[3].pageIndex + 1
    /\ list[1].endPage = list[2].startPage - 1
    /\ list[2].endPage = numPages

IsFullDocument(list, numPages) ==
    /\ Len(list) = 1
    /\ list[1].title = "Full Document"
    /\ list[1].startPage = 1
    /\ list[1].endPage = numPages

\* C7: the fallback runs only after the outline, TOC and content stages each
\* returned null or an empty list, and it gives, and parsePDF then returns,
\* the one chapter "Full Document" from page 1 to the last page.
C7_Fallback ==
    \A i \in 1..Len(invoked) :
        invoked[i] = "fallback"
        => /\ SubSeq(invoked, 1, i - 1) = <<"outline", "toc", "content">>
           /\ \A j \in 1..(i - 1) : ~stageOut[j].threw /\ HoldsNoChapter(stageOut[j])
           /\ IsFullDocument(stageOut[i].list, pdf.numPages)
           /\ pc = "done" => IsFullDocument(result.list, pdf.numPages)

\* parsePDF returned what the fallback gave
C7_Witness ==
    /\ pc = "done"
    /\ Len(invoked) = 4
    /\ invoked[4] = "fallback"

\* C8: once the document is open, parsePDF returns, and returns a list with
\* a chapter in it, whatever the stages come to.
C8_Terminates ==
    (pc = "outline") ~> (pc = "done" /\ ~result.isNull /\ Len(result.list) > 0)

\* parsePDF returned the fallback's chapter after the outline stage and the
\* TOC stage caught an exception and the content stage found nothing
C8_Witness ==
    /\ pc = "done"
    /\ stageOut = <<Null, Null, Some(<<>>), CreatePageBasedChapters(pdf.numPages)>>
    /\ result = stageOut[4]

\* the document with every unreadable page replaced by a page without text
WithoutUnreadable(doc) ==
    [doc EXCEPT !.pages = [p \in 1..Len(doc.pages) |->
                              IF doc.pages[p].read = "throws" THEN BlankPage
                              ELSE doc.pages[p]]]

AnnotationsThrow(doc) ==
    FindTocPage(doc) # 0 /\ doc.pages[FindTocPage(doc)].annotations.status = "throws"

\* C9: an exception while the outline, a page or its annotations are read
\* does not make parsePDF fail: an outline or TOC stage that fails gives
\* null, the content stage skips a page it cannot read, and parsePDF goes on
\* to the next stage.
C9_NonFatal ==
    /\ pdf.load = "ok" => pc # "failed"
    /\ \A i \in 1..Len(stageOut) : ~stageOut[i].threw
    /\ (Len(stageOut) >= 1 /\ pdf.outline.status = "throws")
       => stageOut[1] = Null /\ (Len(invoked) >= 2 => invoked[2] = "toc")
    /\ (Len(stageOut) >= 2 /\ AnnotationsThrow(pdf))
       => stageOut[2] = Null /\ (Len(invoked) >= 3 => invoked[3] = "content")
    /\ Len(stageOut) >= 3
       => stageOut[3] = DetectChaptersFromContent(WithoutUnreadable(pdf))

\* parsePDF returned the chapters the content stage found in a document
\* with a page that cannot be read
C9_Witness ==
    /\ pc = "done"
    /\ invoked = <<"outline", "toc", "content">>
    /\ \E p \in 1..Len(pdf.pages) : pdf.pages[p].read = "throws"

-----------------------------------------------------------------------------
(* Properties of parseEpubStructure                                        *)

\* the manifest has an item with this id whose media-type is XHTML
RefersToXhtml(manifest, idref) ==
    \E i \in 1..Len(manifest) :
        manifest[i].id = idref /\ manifest[i].mediaType = XhtmlType

\* the path of the item with this id: the package file's directory, then
\* the item's href
PathOf(archive, idref) ==
    LET item == CHOOSE it \in {archive.manifest[i] : i \in 1..Len(archive.manifest)} :
                    it.id = idref
    IN Prefix(archive.opfPath, LastIndexOf(archive.opfPath, "/")) \o item.href

\* one path per itemref that refers to an XHTML item, in the spine's order
XhtmlPaths(archive, itemrefs) ==
    LET kept == SelectSeq(itemrefs, LAMBDA idref : RefersToXhtml(archive.manifest, idref))
    IN [k \in 1..Len(kept) |-> PathOf(archive, kept[k])]

HrefsOf(list) == [k \in 1..Len(list) |-> list[k].href]

\* C4: the chapters follow the spine: one chapter, in spine order, for each
\* spine item whose manifest item has the XHTML media-type, and no chapter
\* for any other spine item; parseEpubStructure returns that list.
C4_SpineOrder ==
    /\ epc = "spine"
       => HrefsOf(bookChapters) = XhtmlPaths(zip, SubSeq(zip.spine, 1, spineIndex - 1))
    /\ epc = "done"
       => /\ parsed.chapters = bookChapters
          /\ HrefsOf(parsed.chapters) = XhtmlPaths(zip, zip.spine)

\* parseEpubStructure returned one chapter for a spine of an XHTML item and
\* an item of another media-type
C4_Witness ==
    /\ epc = "done"
    /\ Len(zip.spine) = 2
    /\ Len(parsed.chapters) = 1
    /\ \E i \in 1..2 :
          /\ IsManifestItem(zip.manifest, zip.spine[i])
          /\ ~RefersToXhtml(zip.manifest, zip.spine[i])

-----------------------------------------------------------------------------
(* Properties of viewChapter and extractTextFromHtml                       *)

ExampleText == "T\n\nOne.\n\nTwo."

\* viewChapter has shown the chapter whose body is
\* <body><h1>T</h1><p>One.</p><p>Two.</p></body>, and extractTextFromHtml
\* has been given that body
ExampleViewed ==
    /\ vpc = "done"
    /\ extracted.done
    /\ alerted = ""
    /\ request.type = "epub" /\ request.archive = "ok" /\ request.entry
    /\ RootElement(request.document) = ExampleBody

\* C10: for the body <body><h1>T</h1><p>One.</p><p>Two.</p></body> the
\* extracted text is "T\n\nOne.\n\nTwo.", both as extractTextFromHtml returns
\* it and as viewChapter stores it in currentChapterContent and shows it
C10_ExampleText ==
    ExampleViewed =>
        /\ extracted.text = ExampleText
        /\ currentChapterContent = ExampleText
        /\ shown.content = ExampleText

\* the example chapter has been viewed: extractTextFromHtml gives the
\* paragraphs on lines of their own, viewChapter gives them on one line
C10_Witness ==
    /\ ExampleViewed
    /\ extracted.text = ExampleText
    /\ currentChapterContent \in {"TOne.Two.", "T One. Two."}

\* the text nodes of the body that a reader sees: outside script, style
\* and noscript, and not blank
VisibleTexts(doc) == TrimmedTexts(TextNodes(RootElement(doc), SkipElements))

\* an EPUB chapter that opens and parses has been viewed and exported
ChapterRead ==
    /\ vpc = "done"
    /\ extracted.done
    /\ alerted = ""
    /\ request.type = "epub" /\ request.archive = "ok" /\ request.entry

\* text holds every string of texts, whitespace runs counting as one space
HoldsAll(text, texts) ==
    \A i \in 1..Len(texts) : Includes(CollapseSpaces(text), CollapseSpaces(texts[i]))

-----------------------------------------------------------------------------
(* Properties of extractTextFromPDFRange                                   *)

\* a range of pages of a PDF that opens has been read, by viewChapter and
\* by extractTextFromPDFRange
RangeRead ==
    /\ vpc = "done"
    /\ extracted.done
    /\ alerted = ""
    /\ request.type = "pdf"
    /\ request.pdf.load = "ok"
    /\ request.startPage <= request.endPage
    /\ request.endPage <= request.pdf.numPages

PagesOfRange == {request.pdf.pages[p] : p \in request.startPage..request.endPage}

\* C12: the text of a range of pages that can be read and of which none has
\* text is the empty string, as extractTextFromPDFRange returns it and as
\* viewChapter stores it in currentChapterContent.
C12_EmptyRange ==
    (RangeRead /\ PagesOfRange = {BlankPage})
    => /\ extracted.text = ""
       /\ currentChapterContent = ""

\* a range of blank pages was read: extractTextFromPDFRange gives the empty
\* string, viewChapter's content is its error text
C12_Witness ==
    /\ RangeRead
    /\ PagesOfRange = {BlankPage}
    /\ extracted.text = ""
    /\ currentChapterContent = NoContentError

\* C13: a page of the range that cannot be read counts as a page without
\* text: the text returned is that of the other pages, each under its
\* page marker.
C13_PageFailureLocal ==
    RangeRead
    => extracted.text = ExtractTextFromPDFRange(WithoutUnreadable(request.pdf),
                                                request.startPage, request.endPage)

\* a range with a page of text and a page that cannot be read was read:
\* the text returned is the error text of the whole range
C13_Witness ==
    /\ RangeRead
    /\ UnreadablePage \in PagesOfRange
    /\ \E page \in PagesOfRange : page.read = "ok" /\ page.items # <<>>
    /\ extracted.text = RangeError(request.startPage, request.endPage)

-----------------------------------------------------------------------------
(* Properties of the chapter titles of parseEpubStructure                  *)

\* the content document of chapter k of the archive, when it can be read
IsReadable(archive, href) == href \in DOMAIN archive.files

\* chapter k was made from the file chap03.xhtml, which has no heading and
\* no bold text and the title element Chapter Three - MyBook
IsTitledChapter(k) ==
    /\ zip.container = "ok"
    /\ k \in 1..Len(bookChapters)
    /\ FileName(bookChapters[k].href) = "chap03"
    /\ IsReadable(zip, bookChapters[k].href)
    /\ zip.files[bookChapters[k].href] = TitledContent

\* C14 as stated: the chapter of the file chap03.xhtml with the title
\* element Chapter Three - MyBook has the title Chap03, from its file name.
C14_FileNameTitle ==
    \A k \in 1..Len(bookChapters) : IsTitledChapter(k) => bookChapters[k].title = "Chap03"

\* C14, amended: chap03 holds none of `chapter`, `ch<digits>`, `part`, so
\* the file-name rule gives nothing; the title element is skipped for its
\* " - "; the chapter gets the generic title Chapter k, k its position in
\* the chapter list.
C14_GenericTitle ==
    \A k \in 1..Len(bookChapters) :
        IsTitledChapter(k)
        => /\ ~MatchesChapterFile("chap03")
           /\ bookChapters[k].title = "Chapter " \o NumStr(k)

\* parseEpubStructure returned two chapters made from that file
C14_Witness ==
    /\ epc = "done"
    /\ IsTitledChapter(1) /\ IsTitledChapter(2)
    /\ parsed.chapters[2].title = "Chapter 2"

\* a title as it is shown: not empty, without whitespace at either end or
\* two whitespace characters in a row, no whitespace but the space, of 60
\* characters at most
IsDisplayTitle(title) ==
    /\ Len(title) > 0
    /\ Len(title) <= 60
    /\ ~IsSpace(Char(title, 1))
    /\ ~IsSpace(Char(title, Len(title)))
    /\ \A i \in 1..Len(title) : IsSpace(Char(title, i)) => Char(title, i) = " "
    /\ \A i \in 1..(Len(title) - 1) :
          ~(IsSpace(Char(title, i)) /\ IsSpace(Char(title, i + 1)))

\* chapter k was made from a file whose first heading is longer than a title
\* may be
HasLongHeading(k) ==
    /\ IsReadable(zip, bookChapters[k].href)
    /\ Len(zip.files[bookChapters[k].href].headings) > 0
    /\ zip.files[bookChapters[k].href].headings[1].text = LongHeading

\* C15: every chapter title parseEpubStructure gives is not empty, has no
\* whitespace at its ends and no run of whitespace, and is 60 characters
\* long at most; a longer title is cut to 57 characters and ends with "...".
C15_DisplayTitles ==
    /\ \A k \in 1..Len(bookChapters) :
          /\ IsDisplayTitle(bookChapters[k].title)
          /\ HasLongHeading(k)
             => /\ Len(bookChapters[k].title) = 60
                /\ SubSeq(bookChapters[k].title, 1, 57) = SubSeq(LongHeading, 1, 57)
                /\ SubSeq(bookChapters[k].title, 58, 60) = "..."
    /\ epc = "done" => parsed.chapters = bookChapters

\* parseEpubStructure returned a chapter with a heading that was cut
C15_Witness ==
    /\ epc = "done"
    /\ Len(parsed.chapters) >= 1
    /\ HasLongHeading(1)
    /\ Len(LongHeading) > 60

\* chapter k was made for a file the archive does not have
IsUnread(k) == ~IsReadable(zip, bookChapters[k].href)

\* C16: a content document that cannot be read does not end the discovery:
\* its spine item gives a chapter with the title Chapter k and the item's
\* path, the other items give their chapters as they do otherwise, and
\* parseEpubStructure returns the list.
C16_UnreadableItem ==
    /\ zip.container = "ok" => epc # "failed"
    /\ epc \in {"spine", "done"}
       => /\ HrefsOf(bookChapters)
                = XhtmlPaths(zip, SubSeq(zip.spine, 1, spineIndex - 1))
          /\ \A k \in 1..Len(bookChapters) :
                /\ IsUnread(k) => bookChapters[k].title = "Chapter " \o NumStr(k)
                /\ (~IsUnread(k) /\ FileName(bookChapters[k].href) = "ch1"
                    /\ zip.files[bookChapters[k].href] = EmptyContent)
                   => bookChapters[k].title = "Ch1"
    /\ epc = "done" => parsed.chapters = bookChapters /\ spineIndex = Len(zip.spine) + 1

\* parseEpubStructure returned a chapter for a file that is missing and,
\* after it, a chapter for a file that is there
C16_Witness ==
    /\ epc = "done"
    /\ Len(parsed.chapters) = 2
    /\ IsUnread(1)
    /\ ~IsUnread(2)
    /\ parsed.chapters[2].title = "Ch1"

-----------------------------------------------------------------------------
(* Properties of downloadFullBook                                          *)

\* the positions of the chapters' headers in the text, each looked for
\* after the header of the chapter before it; 0 for a header that is missing
HeaderPositions(text, list) ==
    LET f[i \in 0..Len(list)] ==
            IF i = 0 THEN 1
            ELSE IF f[i - 1] = 0 THEN 0
            ELSE FindFrom(text, SectionHeader(list[i].title),
                          f[i - 1] + (IF i = 1 THEN 0
                                      ELSE Len(SectionHeader(list[i - 1].title))))
    IN f

\* the number of places of the text at which the header of a chapter of the
\* list starts (the page markers of a PDF's text bear no chapter's title)
HeaderCount(text, list) ==
    Cardinality({i \in 1..Len(text) :
                    \E k \in 1..Len(list) : HasAt(text, SectionHeader(list[k].title), i)})

\* the text of chapter i of the current book cannot be extracted
IsFailing(i) ==
    \/ /\ currentBook.type = "epub"
       /\ currentBook.archive # "ok" \/ currentBook.chapters[i].entry # "found"
    \/ /\ currentBook.type = "pdf"
       /\ \E p \in currentBook.chapters[i].startPage..currentBook.chapters[i].endPage :
              currentBook.pdf.pages[p] = UnreadablePage

\* a text that stands for the content of a chapter that was not extracted
IsPlaceholderAt(text, i) ==
    \/ HasAt(text, LoadErrorText, i)
    \/ HasAt(text, NotFoundText, i)
    \/ HasAt(text, "[Error extracting text from pages ", i)

\* downloadFullBook has returned for a book whose file was found with bytes
Exported ==
    /\ xpc = "done"
    /\ currentBook.selected
    /\ currentBook.file = "found"

\* C17: a chapter whose text cannot be extracted does not end the export:
\* the text is saved without an alert, it holds one section header per
\* chapter of the book, in the order of the chapters, and after the header
\* of a failing chapter comes a placeholder text.
C17_BatchNotAborted ==
    Exported
    => /\ saved.done
       /\ exportAlert = ""
       /\ HeaderCount(saved.text, currentBook.chapters) = Len(currentBook.chapters)
       /\ \A i \in 1..Len(currentBook.chapters) :
              /\ HeaderPositions(saved.text, currentBook.chapters)[i] > 0
              /\ IsFailing(i)
                 => IsPlaceholderAt(saved.text,
                        HeaderPositions(saved.text, currentBook.chapters)[i]
                        + Len(SectionHeader(currentBook.chapters[i].title)))

\* a book of two chapters was exported: the entry of the first cannot be
\* read, the text of the second follows its header
C17_Witness ==
    /\ Exported
    /\ saved.done
    /\ currentBook.type = "epub"
    /\ Len(currentBook.chapters) = 2
    /\ currentBook.chapters[1].entry = "unreadable"
    /\ ~IsFailing(2)
    /\ Includes(saved.text, LoadErrorText \o SectionHeader(currentBook.chapters[2].title)
                             \o ExportTextOf(Html(<<>>, ExampleBody), "text"))

-----------------------------------------------------------------------------
(* Properties of handleUpload for an EPUB                                  *)

\* parseEpubStructure was called for the EPUB of the file input, and the
\* archive has no container.xml, no rootfile or no package file
BrokenUpload ==
    /\ upc \in {"parsing", "done"}
    /\ upload.present
    /\ IsEpubName(upload.name)
    /\ IsBrokenArchive(zip)

\* C18: an EPUB without the container descriptor, or without the package
\* document it names, is not discovered at all: parseEpubStructure throws
\* and returns no chapter list, the store of the books and the store of the
\* files keep what they held, and handleUpload ends with the alert of a
\* file that could not be processed.
C18_DiscoveryFailsWhole ==
    BrokenUpload
    => /\ epc = "failed"
       /\ parsed = NoBook
       /\ bookChapters = <<>>
       /\ books \in {<<>>, <<StoredBook>>}
       /\ epubFiles = [i \in 1..Len(books) |-> books[i].id]
       /\ booksList = books
       /\ upc = "done" => uploadAlert = ProcessingError /\ uploadBtn = UploadReady

\* handleUpload has returned for an archive whose package file is missing,
\* while the stores hold the book of an earlier session
C18_Witness ==
    /\ BrokenUpload
    /\ upc = "done"
    /\ zip.container = "no package"
    /\ books = <<StoredBook>>
    /\ uploadAlert = ProcessingError

-----------------------------------------------------------------------------
(* Properties of the page offset of extractChaptersFromTOC                 *)

\* C19: the page offset computed again for the same document, with the
\* same TOC entries and the same page texts, is the page offset computed
\* the first time.
C19_SameOffset ==
    \A i \in 1..Len(offsets) : offsets[i] = offsets[1]

\* the offset of a document whose titles are found off their printed pages
\* was computed twice, and it is not 0
C19_Witness ==
    /\ opc = "computed"
    /\ Len(offsets) = 2
    /\ offsets[2] # 0
    /\ Len(offsetSamples) > 1
    /\ \E i \in 1..Len(offsetSamples) : offsetSamples[i] # offsetSamples[1]

-----------------------------------------------------------------------------
(* Properties of calls of chapter discovery that run at the same time      *)

\* call i has ended, by returning or by throwing
HasEnded(i) == at[i] \in {"done", "failed"}

\* C20: the chapter list a call of parsePDF or parseEpubStructure returns
\* for its document is the list a call that runs alone returns for it,
\* whatever other call goes on between its awaits.
C20_NoSharedState ==
    \A i \in 1..MaxCalls : HasEnded(i) => resolved[i] = DiscoverAlone(given[i])

\* two calls for different documents have both returned, each a chapter
\* list of its own, and the first a list of more than one chapter
C20_Witness ==
    /\ HasEnded(1) /\ HasEnded(2)
    /\ given[1] # given[2]
    /\ ~resolved[1].threw /\ ~resolved[2].threw
    /\ resolved[1].list # resolved[2].list
    /\ Len(resolved[1].list) > 1

-----------------------------------------------------------------------------
(* Properties of PDFParser.detectChaptersFromContent                       *)

\* the numeral of a heading a main chapter pattern matched: the digits a
\* numbered title starts with, the number that follows the word of a chapter
\* or of a part, and for a name the heading itself
HeadingNumeral(matched) ==
    IF DigitRun(matched, 1) >= 1 THEN SubSeq(matched, 1, DigitRun(matched, 1))
    ELSE IF FirstOf(matched, IsSpace) = 0 THEN matched
    ELSE NumeralAt(matched, FirstOf(matched, IsSpace)
                            + SpaceRun(matched, FirstOf(matched, IsSpace)))

\* what a main chapter pattern matches at the head of page p
HeadingOf(doc, p) == MatchMainChapter(CombinedText(doc.pages[p].items)).text

\* page p can be read, and its leading text is no subsection and matches a
\* main chapter pattern
IsHeadingPage(doc, p) ==
    /\ doc.pages[p].read = "ok"
    /\ ~IsSubsection(CombinedText(doc.pages[p].items))
    /\ MatchMainChapter(CombinedText(doc.pages[p].items)).ok

StartsAt(list, p) == \E k \in 1..Len(list) : list[k].startPage = p

\* C21: a page whose leading text matches a main chapter pattern gives a
\* chapter, unless the numeral of its heading is the numeral of the heading
\* of an earlier such page.
C21_SkippedForSameNumeral ==
    Len(stageOut) >= 3
    => \A p \in 1..pdf.numPages :
          IsHeadingPage(pdf, p)
          => \/ StartsAt(stageOut[3].list, p)
             \/ \E q \in 1..(p - 1) :
                    /\ IsHeadingPage(pdf, q)
                    /\ HeadingNumeral(HeadingOf(pdf, q)) = HeadingNumeral(HeadingOf(pdf, p))

\* the content stage has read a page headed "Chapter 1" and, after it, a
\* page headed "Chapter 2", and has found a chapter on the first only
C21_Witness ==
    /\ Len(stageOut) >= 3
    /\ pdf.numPages = 2
    /\ HeadingOf(pdf, 1) = "Chapter 1 "
    /\ HeadingOf(pdf, 2) = "Chapter 2"
    /\ IsHeadingPage(pdf, 1) /\ IsHeadingPage(pdf, 2)
    /\ ChapterNumOf(HeadingOf(pdf, 1)) = "C"
    /\ ChapterNumOf(HeadingOf(pdf, 2)) = "C"
    /\ Len(stageOut[3].list) = 1

-----------------------------------------------------------------------------
(* Properties of the generic titles of parseEpubStructure                  *)

\* the positions in the spine of the itemrefs that give a chapter, in order
ChapterPositions(archive) ==
    LET f[i \in 0..Len(archive.spine)] ==
            IF i = 0 THEN <<>>
            ELSE IF IsChapterItem(archive.manifest, archive.spine[i])
                 THEN Append(f[i - 1], i) ELSE f[i - 1]
    IN f[Len(archive.spine)]

\* the title of the chapter of the itemref at position i of the spine, were
\* `count` chapters pushed before it
TitleAfter(archive, i, count) ==
    ChapterOfItem(archive,
                  archive.manifest[FindItem(archive.manifest, archive.spine[i])],
                  count).title

\* no rule gives the chapter of that itemref a title, or its file cannot be
\* read: its title is the generic one, which goes with the count
HasGenericTitle(archive, i) == TitleAfter(archive, i, 0) # TitleAfter(archive, i, 1)

\* C22 as stated: the generic title of a chapter bears the position of its
\* itemref in the spine, whatever became of the itemrefs before it.
C22_SpinePosition ==
    epc = "done"
    => \A k \in 1..Len(parsed.chapters) :
          HasGenericTitle(zip, ChapterPositions(zip)[k])
          => parsed.chapters[k].title = "Chapter " \o NumStr(ChapterPositions(zip)[k])

\* C22: the generic title of a chapter bears the position of the chapter in
\* the list returned, which is the number of chapters before it plus one.
C22_ChapterPosition ==
    epc = "done"
    => /\ Len(parsed.chapters) = Len(ChapterPositions(zip))
       /\ \A k \in 1..Len(parsed.chapters) :
              HasGenericTitle(zip, ChapterPositions(zip)[k])
              => parsed.chapters[k].title = "Chapter " \o NumStr(k)

\* the first itemref of the spine gave no chapter, the second gave the
\* first chapter, and its title is the generic "Chapter 1"
C22_Witness ==
    /\ epc = "done"
    /\ Len(zip.spine) = 2
    /\ ChapterPositions(zip) = <<2>>
    /\ HasGenericTitle(zip, 2)
    /\ parsed.chapters[1].title = "Chapter 1"

-----------------------------------------------------------------------------
(* Properties of the chapters of a TOC page without links                  *)

\* the TOC stage has read the lines of a TOC page: the page was found, its
\* annotations were read, and none of them is a link with a destination
TocLinesRead ==
    /\ Len(stageOut) >= 2
    /\ FindTocPage(pdf) # 0
    /\ pdf.pages[FindTocPage(pdf)].annotations.status # "throws"
    /\ Len(SelectSeq(pdf.pages[FindTocPage(pdf)].annotations.list, IsLinkWithDest)) = 0

\* the candidates that become chapters: the main ones, or every parsed one
\* when fewer than MinMainChapters main ones remain
CandidatesOf(doc) ==
    IF Len(MainEntriesOf(doc, FindTocPage(doc))) >= MinMainChapters
    THEN MainEntriesOf(doc, FindTocPage(doc))
    ELSE TocEntries(GroupLines(doc.pages[FindTocPage(doc)].items))

\* the rounded mean of the sample offsets found for the first candidates
OffsetOfCandidates(doc) ==
    PageOffset(OffsetSamplesOf(doc, CandidatesOf(doc), FindTocPage(doc)))

\* C23: the chapters of the TOC stage are its candidates, each starting at
\* its printed page number plus the one offset and ending on the page before
\* the start of the next, the last on the last page, also when all parsed
\* candidates are used.
C23_StartsShiftedByOffset ==
    TocLinesRead
    => /\ ~stageOut[2].isNull
       /\ Len(stageOut[2].list) = Len(CandidatesOf(pdf))
       /\ \A i \in 1..Len(stageOut[2].list) :
              /\ stageOut[2].list[i].startPage
                    = CandidatesOf(pdf)[i].pageNum + OffsetOfCandidates(pdf)
              /\ stageOut[2].list[i].endPage
                    = IF i < Len(stageOut[2].list)
                      THEN stageOut[2].list[i + 1].startPage - 1 ELSE pdf.numPages

\* the TOC page lists fewer than MinMainChapters candidates, their titles
\* are found off their printed pages, and the chapters start at the printed
\* page numbers
C23_Witness ==
    /\ TocLinesRead
    /\ Len(MainEntriesOf(pdf, FindTocPage(pdf))) < MinMainChapters
    /\ Len(CandidatesOf(pdf)) > 0
    /\ OffsetOfCandidates(pdf) # 0
    /\ \A i \in 1..Len(stageOut[2].list) :
          stageOut[2].list[i].startPage = CandidatesOf(pdf)[i].pageNum

-----------------------------------------------------------------------------
(* Properties of the TOC page of extractChaptersFromTOC                    *)

\* a line of the page is the word "contents" and nothing else
HasContentsLine(page) ==
    \E k \in 1..Len(GroupLines(page.items)) :
        ToLowerCase(GroupLines(page.items)[k]) = "contents"

\* the page can be read and has a table-of-contents indicator: "table of
\* contents", the line "contents", or the localized "índice"
IsTocPage(page) ==
    /\ page.read = "ok"
    /\ \/ Includes(ToLowerCase(Join(Strs(page.items), " ")), "table of contents")
       \/ Includes(ToLowerCase(Join(Strs(page.items), " ")), "índice")
       \/ HasContentsLine(page)

\* the first of the pages scanned that has an indicator; 0 without one
FirstTocPage(doc) ==
    IF \A p \in 1..Min(TocScanPages, doc.numPages) : ~IsTocPage(doc.pages[p]) THEN 0
    ELSE CHOOSE p \in 1..Min(TocScanPages, doc.numPages) :
            IsTocPage(doc.pages[p]) /\ \A q \in 1..(p - 1) : ~IsTocPage(doc.pages[q])

\* C24: the TOC stage reads as TOC page the first of the pages
\* 1..min(20, numPages) with an indicator, a page with the word "contents"
\* inside other text having none, and returns null when there is no such
\* page.
C24_FirstTocPage ==
    Len(stageOut) >= 2
    => /\ FindTocPage(pdf) = FirstTocPage(pdf)
       /\ FirstTocPage(pdf) = 0 => stageOut[2] = Null

\* the TOC stage has taken for the TOC page a page that has the word
\* "contents" inside a sentence and no indicator, and has not returned null
C24_Witness ==
    /\ Len(stageOut) >= 2
    /\ FirstTocPage(pdf) = 0
    /\ FindTocPage(pdf) # 0
    /\ Strs(pdf.pages[FindTocPage(pdf)].items) = <<"The contents of a box">>
    /\ stageOut[2] # Null

-----------------------------------------------------------------------------
(* Properties of the text of extractTextFromHtml                           *)

\* extractTextFromHtml has returned the text of the body of a chapter
MarkupRead ==
    /\ extracted.done
    /\ request.type = "epub"

\* C25: the text extractTextFromHtml returns has no three newlines in a
\* row, no line that starts or ends with a space or a tab, and no white
\* space at its start or end, whatever the tree.
C25_CleanText ==
    MarkupRead
    => /\ ~Includes(extracted.text, "\n\n\n")
       /\ \A c \in {" ", "\t"} :
              /\ ~Includes(extracted.text, "\n" \o c)
              /\ ~Includes(extracted.text, c \o "\n")
       /\ Trim(extracted.text) = extracted.text

\* the body has a paragraph, a paragraph of a space and a paragraph: the
\* text returned has three newlines between the two texts
C25_Witness ==
    /\ MarkupRead
    /\ request.document = Html(<<>>, El("body", <<El("p", <<Text("One.")>>),
                                                  El("p", <<Text(" ")>>),
                                                  El("p", <<Text("Two.")>>)>>))
    /\ Includes(extracted.text, "One.\n\n\n")

-----------------------------------------------------------------------------
(* Properties of the object stores of EpubDB                               *)

\* C26: whatever addBook and deleteBook calls have succeeded or failed, the
\* ids of the store of the books are the ids of the store of the files.
C26_StoresAgree ==
    IdsOf(books) = {epubFiles[i] : i \in 1..Len(epubFiles)}

\* an addBook whose request on the store of the files failed, after its
\* request on the store of the books had succeeded, has left the stores as
\* they were, with a book an earlier addBook has committed
C26_Witness ==
    /\ tx.op = "none"
    /\ tx.rejected
    /\ tx.step = 2
    /\ tx.id \notin IdsOf(books)
    /\ books # <<>>

-----------------------------------------------------------------------------
(* Properties of downloadFullBook while viewBook runs                      *)

\* the text downloadFullBook makes of a book when nothing else runs
ExportedText(book) ==
    LET f[i \in 0..Len(book.chapters)] ==
            IF i = 0 THEN BookHead(book) ELSE WithChapter(f[i - 1], book, i)
    IN f[Len(book.chapters)]

\* C27: the file downloadFullBook offers holds the chapters of the book it
\* was started for, read from that book's file, and bears its name, also
\* when viewBook has made another book the current one in between.
C27_ExportOfStartedBook ==
    saved.done =>
        /\ saved.text = ExportedText(arrayBuffer)
        /\ saved.fileName = SafeName(arrayBuffer.title) \o "_complete.txt"

\* a download was started for a book of two chapters, viewBook chose
\* another book after its first chapter, and the file was offered
C27_Witness ==
    /\ saved.done
    /\ Len(arrayBuffer.chapters) = 2
    /\ currentBook \in OtherBooks
    /\ Includes(saved.text, SectionHeader(arrayBuffer.chapters[1].title))
    /\ Includes(saved.text, SectionHeader("One"))

-----------------------------------------------------------------------------
(* Properties of viewChapter calls that run at the same time               *)

\* call i has shown its chapter
HasShown(i) == viewAt[i] = "done" /\ AlertOf(asked[i]) = ""

\* C28: when the content section is shown, the title and the text on display
\* and currentChapterContent are those of one chapter a call was made for,
\* however the calls of viewChapter interleave.
C28_OneChapterShown ==
    shown.section = "content" =>
        \E i \in 1..MaxViews :
            /\ HasShown(i)
            /\ shown.title = asked[i].title
            /\ shown.content = ContentOf(TextOfRequest(asked[i]))
            /\ currentChapterContent = ContentOf(TextOfRequest(asked[i]))

\* the first call has shown its chapter while the second, for another
\* chapter, has the bytes of its file and waits for the text
C28_Witness ==
    /\ HasShown(1)
    /\ viewAt[2] = "text"
    /\ asked[1].title # asked[2].title
    /\ shown.section = "content"
    /\ shown.title = asked[1].title

-----------------------------------------------------------------------------
(* Properties of the buttons of handleUpload and downloadFullBook          *)

\* C29: a handleUpload that has disabled the Upload button, and a
\* downloadFullBook that has disabled the Download Full Book button, enables
\* it again in the end, whether it succeeds, returns early or throws.
C29_ButtonsEnabledAgain ==
    /\ uploadBtn.disabled ~> ~uploadBtn.disabled
    /\ downloadBtn.disabled ~> ~downloadBtn.disabled

\* an upload has ended in its catch clause and a download has returned for
\* want of the file, and both buttons can be used again
C29_Witness ==
    /\ upc = "done"
    /\ uploadAlert = ProcessingError
    /\ uploadBtn = UploadReady
    /\ xpc = "done"
    /\ exportAlert = "File not found"
    /\ downloadBtn = ExportReady

-----------------------------------------------------------------------------
(* Properties of the fallback of extractChaptersFromOutline                *)

\* allOutlineItems of the document parsePDF was called with
OutlineItemsRead == SortByPageNumber(FlattenOutline(pdf.outline.nodes))

\* the outline stage has run on an outline with entries, and none of them
\* was classified as a main chapter
NoMainChapter ==
    /\ Len(invoked) >= 1
    /\ pdf.outline.status = "list"
    /\ Len(pdf.outline.nodes) > 0
    /\ MainChaptersOf(OutlineItemsRead, pdf.numPages) = <<>>

\* C30: when no item of the outline is classified as a main chapter, no
\* flattened item is at level 0, and the outline stage gives no chapter.
C30_FallbackIsEmpty ==
    NoMainChapter =>
        /\ \A i \in 1..Len(OutlineItemsRead) : OutlineItemsRead[i].level # 0
        /\ stageOut[1] = Some(<<>>)

\* the outline stage has run on an outline whose only resolved entry is
\* nested, and the later stages had to find the chapters
C30_Witness ==
    /\ NoMainChapter
    /\ Len(OutlineItemsRead) > 0
    /\ Len(invoked) > 1

====
